---- MODULE Spec2Model ----
(***************************************************************************)
(* Verification model of parts of the Vampire saturation prover:           *)
(*   - Kernel/MainLoopScheduler.hpp   (multi-strategy scheduler)           *)
(*   - Inferences/SLQueryForwardSubsumption.cpp                            *)
(*   - Inferences/ForwardDemodulation.cpp                                  *)
(*   - Inferences/CTFwSubsAndRes.cpp                                       *)
(***************************************************************************)
EXTENDS Integers, Sequences, FiniteSets, TLC

(***************************************************************************)
(* Bounds of the scheduler model.                                          *)
(***************************************************************************)
NumStrategies == 3
MaxCapacity == 2
MaxPriority == 1
MaxSteps == 2
MaxTime == 2

Strategies == 1..NumStrategies
NoContext == 0

(***************************************************************************)
(* Bounds of the forward subsumption model.                                *)
(***************************************************************************)
MaxClauseLen == 2      \* length of a clause (given or indexed)

\* Literals: polarity, unary predicate symbol, argument (x is a variable)
Args == {"x", "a", "b"}
Variables == {"x"}
Literals == [pol : BOOLEAN, pred : {"p"}, arg : Args]

(***************************************************************************)
(* Bounds of the forward demodulation model.                               *)
(***************************************************************************)
MaxDepth == 1          \* nesting of the function symbol f in an input term
MaxAge == 1            \* age of an input clause

\* Terms over one unary function symbol f: n applications of f to a leaf
Constants == {"a", "b"}
Terms == [n : 0..MaxDepth, leaf : Constants \cup Variables]
Colors == {"COLOR_TRANSPARENT", "COLOR_LEFT", "COLOR_RIGHT"}
InputTypes == 0..2
NoClause == [lits |-> <<>>, none |-> TRUE]
Uninitialized == [uninitialized |-> TRUE]

RECURSIVE SeqsOfLen(_, _)
SeqsOfLen(S, n) ==
  IF n = 0 THEN {<<>>}
  ELSE {Append(q, e) : q \in SeqsOfLen(S, n - 1), e \in S}

SeqsUpTo(S, n) == UNION {SeqsOfLen(S, m) : m \in 0..n}

Range(q) == {q[i] : i \in DOMAIN q}
NoDuplicates(q) == \A i \in DOMAIN q, j \in DOMAIN q : q[i] = q[j] => i = j

VARIABLES
  \* ---- MainLoopScheduler ----
  prio,             \* getMultiProofAttemptPriority() of every Options object
  optionsQueue,     \* the Options objects held by the priority queue
  pushed,           \* the Options objects already handed to addStrategy
  _capacity,        \* number of context slots
  _contextCounter,  \* number of alive contexts
  _mlcl,            \* slot -> strategy run by its context, NoContext when null
  _maxTimeSlice,
  _minTimeSlice,
  avgTimes,         \* the values averageTimeSlice() can take in this run
  avgTime,          \* slot -> averageTimeSlice() of its context
  lastSlice,        \* the slice handed to doStep by the latest contextStep
  lastOutcome,      \* what the latest doStep reported
  stepsOf,          \* strategy -> number of contextSteps it has received
  admitPhase,       \* strategy -> fill phase in which it was admitted, 0 = never
  phase,            \* number of fill phases started by run()
  cursor,           \* slot index of the round-robin loop
  pc,               \* position of run()
  result,           \* termination reason returned by run(), "NONE" before
  \* ---- SLQueryForwardSubsumption ----
  fsIndex,          \* the clauses held by the simplifying literal index
  fsCl,             \* the clause handed to perform
  fsPc,             \* "idle", "ready" (before perform) or "done" (after)
  keep,             \* the caller's flag behind the reference bool& keep
  premises,         \* the clauses of the iterator perform hands back
  toAdd,            \* the clauses perform asks to add
  forwardSubsumed,  \* env.statistics->forwardSubsumed
  fsQueried,        \* number of calls of _index->getGeneralizations
  \* ---- ForwardDemodulation ----
  fdIndex,          \* the entries of the demodulation LHS index
  fdCl,             \* the clause handed to perform
  _preorderedOnly,  \* forwardDemodulation() == DEMODULATION_PREORDERED
  demodulationRedundancyCheck,   \* env.options->demodulationRedundancyCheck()
  fdPc,             \* "idle", "loop" (inside perform) or "done" (returned)
  fdPos,            \* number of the subterm the loops have reached
  fdTried,          \* index entries already taken from git for that subterm
  fdCalls,          \* the calls simplPerformer->perform(premise, replacement)
  fdKept,           \* simplPerformer->clauseKept()
  forwardDemodulations,          \* env.statistics->forwardDemodulations
  forwardDemodulationsToEqTaut,  \* ...->forwardDemodulationsToEqTaut
  \* ---- CTFwSubsAndRes ----
  ctCl,             \* the clause handed to perform
  _subsumptionResolution,
  ctPc,             \* "idle", "ready", "loop" (inside perform) or "done"
  ctYielded,        \* number of results taken from sresIt
  ctCalls,          \* the calls simplPerformer->perform(premise, replacement)
  ctKept,           \* simplPerformer->clauseKept()
  _auxInUse,        \* Clause::requestAux() without its releaseAux()
  auxMarked,        \* the clauses for which hasAux() holds
  auxRequested,     \* number of calls of Clause::requestAux()
  auxReleased,      \* number of calls of Clause::releaseAux()
  ctForwardSubsumed,               \* env.statistics->forwardSubsumed
  forwardSubsumptionResolution,    \* ...->forwardSubsumptionResolution
  ctQueried,        \* number of calls of getSubsumingOrSResolvingClauses
  \* ---- InnerRewriting ----
  irCl,             \* the clause handed to perform
  irPc,             \* "idle", "ready" (before perform) or "done" (after)
  irCalls,          \* the calls simplPerformer->perform(0, replacement)
  irKept,           \* simplPerformer->clauseKept()
  innerRewrites,            \* env.statistics->innerRewrites
  innerRewritesToEqTaut,    \* env.statistics->innerRewritesToEqTaut
  \* ---- vampire.cpp ----
  mode,             \* env.options->mode()
  mainPc,           \* position of main()
  vampireReturnValue,
  terminationReason,        \* env.statistics->terminationReason
  modeOutcome,      \* how the mode function was left
  exitCode,         \* the value main() returned, NoExit before
  \* ---- IntegerConstantType ----
  icOp,             \* the operator applied
  icLhs,            \* _val
  icRhs,            \* num._val
  icPc,             \* "idle", "ready" (before the call) or "done" (after)
  icResult          \* what the call produced

schedVars == <<prio, optionsQueue, pushed, _capacity, _contextCounter, _mlcl,
               _maxTimeSlice, _minTimeSlice, avgTimes, avgTime, lastSlice,
               lastOutcome,
               stepsOf, admitPhase, phase, cursor, pc, result>>

fsVars == <<fsIndex, fsCl, fsPc, keep, premises, toAdd, forwardSubsumed,
            fsQueried>>

fdVars == <<fdIndex, fdCl, _preorderedOnly, demodulationRedundancyCheck,
            fdPc, fdPos, fdTried, fdCalls, fdKept, forwardDemodulations,
            forwardDemodulationsToEqTaut>>

ctVars == <<ctCl, _subsumptionResolution, ctPc, ctYielded, ctCalls, ctKept,
            _auxInUse, auxMarked, auxRequested, auxReleased,
            ctForwardSubsumed,
            forwardSubsumptionResolution, ctQueried>>

irVars == <<irCl, irPc, irCalls, irKept, innerRewrites, innerRewritesToEqTaut>>

mainVars == <<mode, mainPc, vampireReturnValue, terminationReason, modeOutcome,
              exitCode>>

intVars == <<icOp, icLhs, icRhs, icPc, icResult>>

VARIABLES
  \* ---- BFNTMainLoop ----
  bfPc,            \* position in runImpl and spawnChild
  modelSize,       \* runImpl: modelSize
  _childOptsBfnt,  \* _childOpts.bfnt()
  sigintIgnored,   \* the parent's disposition of SIGINT is to ignore it
  status,          \* spawnChild: what waitpid stored in status
  childResult,     \* runImpl: childResult.terminationReason
  bfResult,        \* the termination reason runImpl returned
  spawned,         \* the model sizes children were forked for, in order
  childMainLoops,  \* the kinds of main loop the children created
  bfEvents,        \* what the current spawnChild call did so far, in order
  bfChecks,        \* number of time limit tests of runImpl
  sigintsDropped   \* keyboard interrupts the parent ignored

bfVars == <<bfPc, modelSize, _childOptsBfnt, sigintIgnored, status,
            childResult, bfResult, spawned, childMainLoops, bfEvents,
            bfChecks, sigintsDropped>>

VARIABLES
  \* ---- Kernel/Theory: RationalConstantType ----
  ratOp,           \* the constructor or operator that is called
  ratA,            \* *this, or the arguments num and den of a constructor
  ratB,            \* the argument of a binary operator
  ratPc,           \* the call is running or has ended
  ratResult,       \* the value built, or the exception
  ratEqual,        \* what operator== returned
  gcdOfZero        \* what Int::gcd answers when an argument is 0

ratVars == <<ratOp, ratA, ratB, ratPc, ratResult, ratEqual, gcdOfZero>>

VARIABLES
  \* ---- Shell/Interpolants: mergeCopy ----
  mcTgt,           \* the list tgt points to
  mcSrc,           \* the list src points to
  mcSrcAtEntry,    \* src when mergeCopy was first called
  mcTgts           \* tgt at the first call and after every call

mcVars == <<mcTgt, mcSrc, mcSrcAtEntry, mcTgts>>

VARIABLES
  \* ---- Shell/Property: scanForInterpreted ----
  scTerm,                   \* the term or literal t
  scPc,                     \* the call is running or has ended
  _interpretationPresence,  \* the interpretations marked as present
  _hasInterpreted,
  scProps,                  \* the properties added by addProp
  scSortCalls,              \* the arguments of the calls of getOperationSort
  scOutcome                 \* how the call ended

scVars == <<scTerm, scPc, _interpretationPresence, _hasInterpreted, scProps,
            scSortCalls, scOutcome>>

VARIABLES
  \* ---- the Passive container of the given-clause loop ----
  passive,       \* the clauses in Passive: records of id, age and weight
  given,         \* the age of the given clause, NoGiven before the first
  turn,          \* the position in the cycle of the age-weight ratio
  ageRatio,      \* the age part of the age-weight ratio
  weightRatio    \* the weight part of the age-weight ratio

pqVars == <<passive, given, turn, ageRatio, weightRatio>>

lateVars == <<bfVars, ratVars, mcVars, scVars, pqVars>>

lateButBf == <<ratVars, mcVars, scVars, pqVars>>

lateButRat == <<bfVars, mcVars, scVars, pqVars>>

lateButMc == <<bfVars, ratVars, scVars, pqVars>>

lateButSc == <<bfVars, ratVars, mcVars, pqVars>>

lateButPq == <<bfVars, ratVars, mcVars, scVars>>

earlyVars == <<schedVars, fsVars, fdVars, ctVars, irVars, mainVars, intVars>>

restVars == <<irVars, mainVars, intVars, lateVars>>

vars == <<schedVars, fsVars, fdVars, ctVars, restVars>>

Slots == 0..(_capacity - 1)

(***************************************************************************)
(* MainLoopScheduler                                                       *)
(***************************************************************************)

\* CompareOptions with the comparison turned round
CompareOptionsFlipped(lhs, rhs) == prio[lhs] < prio[rhs]

\* CompareOptions::operator(): reversed priority order, 0 is top priority
CompareOptions(lhs, rhs) == prio[lhs] > prio[rhs]

\* std::priority_queue::top(): an element that the comparison orders
\* before no other element (the order among ties is left open)
IsTop(o, queue) ==
  /\ o \in queue
  /\ \A e \in queue : ~CompareOptions(o, e)

\* addStrategy: optionsQueue.push(&opt)
addStrategy(opt) ==
  /\ optionsQueue' = optionsQueue \cup {opt}
  /\ pushed' = pushed \cup {opt}

\* addContext that forgets to count the new context
addContextNoCount(k) ==
  /\ k \in Slots
  /\ optionsQueue # {}
  /\ \E o \in optionsQueue :
       /\ IsTop(o, optionsQueue)
       /\ _mlcl' = [_mlcl EXCEPT ![k] = o]
       /\ optionsQueue' = optionsQueue \ {o}
  /\ _contextCounter' = _contextCounter

\* addContext(k): a context for optionsQueue.top() is stored in slot k,
\* the queue is popped and the counter is incremented
addContext(k) ==
  /\ k \in Slots
  /\ optionsQueue # {}
  /\ \E o \in optionsQueue :
       /\ IsTop(o, optionsQueue)
       /\ _mlcl' = [_mlcl EXCEPT ![k] = o]
       /\ optionsQueue' = optionsQueue \ {o}
  /\ _contextCounter' = _contextCounter + 1

\* deleteContext(k): slot k is emptied and the counter is decremented
deleteContext(k) ==
  /\ _mlcl[k] # NoContext
  /\ _mlcl' = [_mlcl EXCEPT ![k] = NoContext]
  /\ _contextCounter' = _contextCounter - 1

\* exausted that already gives up when one of the two is used up
exaustedEither == (_contextCounter = 0) \/ (optionsQueue = {})

\* exausted(): no alive context and nothing queued
exausted == (_contextCounter = 0) /\ (optionsQueue = {})

\* contextStep that always steps the context of slot 0
contextStepSlotZero(k, t, outcome) ==
  /\ k \in Slots
  /\ lastSlice' = _maxTimeSlice
  /\ lastOutcome' = outcome
  /\ avgTime' = [avgTime EXCEPT ![k] = t]
  /\ stepsOf' = IF _mlcl[0] = NoContext THEN stepsOf
                ELSE [stepsOf EXCEPT ![_mlcl[0]] = @ + 1]
  /\ _maxTimeSlice' = _maxTimeSlice
  /\ _minTimeSlice' = IF outcome = "CONTINUE" /\ _minTimeSlice > t
                        THEN t ELSE _minTimeSlice

\* contextStep(k): doStep gets _maxTimeSlice; when doStep comes back the
\* smallest average slice seen so far is recorded.  A doStep that ends the
\* context leaves contextStep through the exception, before the update.
contextStep(k, t, outcome) ==
  /\ k \in Slots
  /\ lastSlice' = _maxTimeSlice
  /\ lastOutcome' = outcome
  /\ avgTime' = [avgTime EXCEPT ![k] = t]
  /\ stepsOf' = [stepsOf EXCEPT ![_mlcl[k]] = @ + 1]
  /\ _maxTimeSlice' = _maxTimeSlice
  /\ _minTimeSlice' = IF outcome = "CONTINUE" /\ _minTimeSlice > t
                        THEN t ELSE _minTimeSlice

\* clearAll that leaves the contexts in their slots
clearAllKeep ==
  /\ _mlcl' = _mlcl
  /\ _contextCounter' = _contextCounter

\* clearAll(): every context is deleted
clearAll ==
  /\ _mlcl' = [k \in Slots |-> NoContext]
  /\ _contextCounter' = 0

Outcomes == {"CONTINUE", "REFUTATION", "SATISFIABLE", "FINISHED"}

(***************************************************************************)
(* run(): the loop of the scheduler                                        *)
(***************************************************************************)

\* a strategy is registered before run() is called
AddStrategy ==
  /\ UNCHANGED <<fsVars, fdVars, ctVars, restVars>>
  /\ pc = "setup"
  /\ \E opt \in Strategies \ pushed : addStrategy(opt)
  /\ UNCHANGED <<prio, _capacity, _contextCounter, _mlcl, _maxTimeSlice,
                 _minTimeSlice, avgTimes, avgTime, lastSlice, lastOutcome, stepsOf,
                 admitPhase, phase, cursor, pc, result>>

\* run() is entered
StartRun ==
  /\ UNCHANGED <<fsVars, fdVars, ctVars, restVars>>
  /\ pc = "setup"
  /\ pc' = "fill"
  /\ phase' = 1
  /\ UNCHANGED <<prio, optionsQueue, pushed, _capacity, _contextCounter,
                 _mlcl, _maxTimeSlice, _minTimeSlice, avgTimes, avgTime, lastSlice,
                 lastOutcome, stepsOf, admitPhase, cursor, result>>

\* step 1 of the loop: the lowest empty slot is filled from the queue
FillSlot ==
  /\ UNCHANGED <<fsVars, fdVars, ctVars, restVars>>
  /\ pc = "fill"
  /\ ~exausted
  /\ \E k \in Slots :
       /\ _mlcl[k] = NoContext
       /\ \A j \in Slots : j < k => _mlcl[j] # NoContext
       /\ addContext(k)
       /\ admitPhase' = [admitPhase EXCEPT ![_mlcl'[k]] = phase]
       /\ avgTime' = [avgTime EXCEPT ![k] = 0]
  /\ UNCHANGED <<prio, pushed, _capacity, _maxTimeSlice, _minTimeSlice,
                 avgTimes, lastSlice, lastOutcome, stepsOf, phase, cursor,
                 pc, result>>

\* step 1 ends when the slots are full or the queue is empty
FillDone ==
  /\ UNCHANGED <<fsVars, fdVars, ctVars, restVars>>
  /\ pc = "fill"
  /\ ~exausted
  /\ \/ optionsQueue = {}
     \/ \A k \in Slots : _mlcl[k] # NoContext
  /\ pc' = "step"
  /\ cursor' = 0
  /\ UNCHANGED <<prio, optionsQueue, pushed, _capacity, _contextCounter,
                 _mlcl, _maxTimeSlice, _minTimeSlice, avgTimes, avgTime, lastSlice,
                 lastOutcome, stepsOf, admitPhase, phase, result>>

\* step 2 of the loop: the slot under the cursor gets one time slice;
\* steps 3 and 4: REFUTATION and SATISFIABLE stop all slots and end run()
StepSlot ==
  /\ UNCHANGED <<fsVars, fdVars, ctVars, restVars>>
  /\ pc = "step"
  /\ ~exausted
  /\ cursor \in Slots
  /\ _mlcl[cursor] # NoContext
  /\ \E outcome \in Outcomes, t \in avgTimes :
       /\ outcome = "CONTINUE" => stepsOf[_mlcl[cursor]] + 1 < MaxSteps
       /\ contextStep(cursor, t, outcome)
       /\ CASE outcome = "CONTINUE" ->
                 /\ cursor' = cursor + 1
                 /\ UNCHANGED <<_mlcl, _contextCounter, pc, result>>
            [] outcome = "FINISHED" ->
                 /\ deleteContext(cursor)
                 /\ cursor' = cursor + 1
                 /\ UNCHANGED <<pc, result>>
            [] OTHER ->
                 /\ clearAll
                 /\ result' = outcome
                 /\ pc' = "done"
                 /\ UNCHANGED cursor
  /\ UNCHANGED <<prio, optionsQueue, pushed, _capacity, avgTimes, admitPhase,
                 phase>>

\* an empty slot is passed over
SkipSlot ==
  /\ UNCHANGED <<fsVars, fdVars, ctVars, restVars>>
  /\ pc = "step"
  /\ ~exausted
  /\ cursor \in Slots
  /\ _mlcl[cursor] = NoContext
  /\ cursor' = cursor + 1
  /\ UNCHANGED <<prio, optionsQueue, pushed, _capacity, _contextCounter,
                 _mlcl, _maxTimeSlice, _minTimeSlice, avgTimes, avgTime, lastSlice,
                 lastOutcome, stepsOf, admitPhase, phase, pc, result>>

\* the round is over, the loop starts again with step 1
RoundDone ==
  /\ UNCHANGED <<fsVars, fdVars, ctVars, restVars>>
  /\ pc = "step"
  /\ ~exausted
  /\ cursor = _capacity
  /\ pc' = "fill"
  /\ phase' = phase + 1
  /\ UNCHANGED <<prio, optionsQueue, pushed, _capacity, _contextCounter,
                 _mlcl, _maxTimeSlice, _minTimeSlice, avgTimes, avgTime, lastSlice,
                 lastOutcome, stepsOf, admitPhase, cursor, result>>

\* step 5 of the loop: queue and slots are used up
ReturnUnknown ==
  /\ UNCHANGED <<fsVars, fdVars, ctVars, restVars>>
  /\ pc \in {"fill", "step"}
  /\ exausted
  /\ pc' = "done"
  /\ result' = "UNKNOWN"
  /\ UNCHANGED <<prio, optionsQueue, pushed, _capacity, _contextCounter,
                 _mlcl, _maxTimeSlice, _minTimeSlice, avgTimes, avgTime, lastSlice,
                 lastOutcome, stepsOf, admitPhase, phase, cursor>>

\* the scheduler after construction: no strategy registered, all slots
\* empty; priorities, first slices and reported averages range over the
\* given sets
SchedInit(priorities, slices, averages) ==
  /\ prio \in [Strategies -> priorities]
  /\ optionsQueue = {}
  /\ pushed = {}
  /\ _capacity \in 1..MaxCapacity
  /\ _contextCounter = 0
  /\ _mlcl = [k \in 0..(_capacity - 1) |-> NoContext]
  /\ _maxTimeSlice \in slices
  /\ _minTimeSlice = _maxTimeSlice
  /\ avgTimes = averages
  /\ avgTime = [k \in 0..(_capacity - 1) |-> 0]
  /\ lastSlice = 0
  /\ lastOutcome = "NONE"
  /\ stepsOf = [s \in Strategies |-> 0]
  /\ admitPhase = [s \in Strategies |-> 0]
  /\ phase = 0
  /\ cursor = 0
  /\ pc = "setup"
  /\ result = "NONE"

FsIdle ==
  /\ fsIndex = {}
  /\ fsCl = <<>>
  /\ fsPc = "idle"
  /\ keep = TRUE
  /\ premises = <<>>
  /\ toAdd = <<>>
  /\ forwardSubsumed = 0
  /\ fsQueried = 0

FdIdle ==
  /\ fdIndex = {}
  /\ fdCl = NoClause
  /\ _preorderedOnly = FALSE
  /\ demodulationRedundancyCheck = FALSE
  /\ fdPc = "idle"
  /\ fdPos = 0
  /\ fdTried = {}
  /\ fdCalls = <<>>
  /\ fdKept = TRUE
  /\ forwardDemodulations = 0
  /\ forwardDemodulationsToEqTaut = 0

CtIdle ==
  /\ ctCl = NoClause
  /\ _subsumptionResolution = FALSE
  /\ ctPc = "idle"
  /\ ctYielded = 0
  /\ ctCalls = <<>>
  /\ ctKept = TRUE
  /\ _auxInUse = FALSE
  /\ auxMarked = {}
  /\ auxRequested = 0
  /\ auxReleased = 0
  /\ ctForwardSubsumed = 0
  /\ forwardSubsumptionResolution = 0
  /\ ctQueried = 0

NoExit == -1

IrIdle ==
  /\ irCl = <<>>
  /\ irPc = "idle"
  /\ irCalls = <<>>
  /\ irKept = TRUE
  /\ innerRewrites = 0
  /\ innerRewritesToEqTaut = 0

MainIdle ==
  /\ mode = "NONE"
  /\ mainPc = "idle"
  /\ vampireReturnValue = 1
  /\ terminationReason = "UNKNOWN"
  /\ modeOutcome = "none"
  /\ exitCode = NoExit

IntIdle ==
  /\ icOp = "NONE"
  /\ icLhs = 0
  /\ icRhs = 0
  /\ icPc = "idle"
  /\ icResult = [kind |-> "none", val |-> 0]

NoStatus == [kind |-> "none", code |-> 0]

BfIdle ==
  /\ bfPc = "idle"
  /\ modelSize = 0
  /\ _childOptsBfnt = FALSE
  /\ sigintIgnored = FALSE
  /\ status = NoStatus
  /\ childResult = "NONE"
  /\ bfResult = "NONE"
  /\ spawned = <<>>
  /\ childMainLoops = {}
  /\ bfEvents = <<>>
  /\ bfChecks = 0
  /\ sigintsDropped = 0

RatIdle ==
  /\ ratOp = "NONE"
  /\ ratA = [num |-> 0, den |-> 1]
  /\ ratB = [num |-> 0, den |-> 1]
  /\ ratPc = "idle"
  /\ ratResult = [ok |-> FALSE, num |-> 0, den |-> 0]
  /\ ratEqual = FALSE
  /\ gcdOfZero = "ONE"

McIdle ==
  /\ mcTgt = <<>>
  /\ mcSrc = <<>>
  /\ mcSrcAtEntry = <<>>
  /\ mcTgts = <<>>

NoInterpretation == [sort |-> "NONE", op |-> "NONE"]

ScIdle ==
  /\ scTerm = [kind |-> "none", sort |-> "NONE", interpreted |-> FALSE,
               arity |-> 0, itp |-> NoInterpretation]
  /\ scPc = "idle"
  /\ _interpretationPresence = {}
  /\ _hasInterpreted = FALSE
  /\ scProps = {}
  /\ scSortCalls = <<>>
  /\ scOutcome = "none"

NoGiven == -1

PqIdle ==
  /\ passive = {}
  /\ given = NoGiven
  /\ turn = 0
  /\ ageRatio = 1
  /\ weightRatio = 1

LateIdle == BfIdle /\ RatIdle /\ McIdle /\ ScIdle /\ PqIdle

RestIdle == IrIdle /\ MainIdle /\ IntIdle /\ LateIdle

Init ==
  /\ SchedInit(0..MaxPriority, {MaxTime}, {0})
  /\ FsIdle /\ FdIdle /\ CtIdle /\ RestIdle

Next ==
  \/ AddStrategy
  \/ StartRun
  \/ FillSlot
  \/ FillDone
  \/ StepSlot
  \/ SkipSlot
  \/ RoundDone
  \/ ReturnUnknown

Spec == Init /\ [][Next]_vars

\* the scheduler with contexts that report different average slices
InitSlice ==
  /\ SchedInit({0}, 1..MaxTime, 0..MaxTime)
  /\ FsIdle /\ FdIdle /\ CtIdle /\ RestIdle

SpecSlice == InitSlice /\ [][Next]_vars


(***************************************************************************)
(* Properties of the scheduler                                             *)
(***************************************************************************)

Occupied == {k \in Slots : _mlcl[k] # NoContext}
Admitted == {s \in Strategies : admitPhase[s] > 0}

\* C1: whenever a strategy leaves the options queue to fill a slot, its
\* priority value is minimal among all strategies that were queued.
C1_PriorityOrder ==
  [][\A o \in optionsQueue \ optionsQueue' :
        \A e \in optionsQueue : prio[o] <= prio[e]]_vars

\* a slot holds a strategy while a strategy of lower priority still waits
C1_Witness ==
  \E k \in Slots :
    /\ _mlcl[k] # NoContext
    /\ \E e \in optionsQueue : prio[e] > prio[_mlcl[k]]

\* C2: the alive-context counter is the number of occupied slots and lies
\* between 0 and the capacity.
C2_CounterMatchesSlots ==
  /\ 0 <= _contextCounter
  /\ _contextCounter <= _capacity
  /\ _contextCounter = Cardinality(Occupied)

\* all slots are occupied again after a context of the first fill phase
\* has been deleted
C2_Witness ==
  /\ _capacity = 2
  /\ _contextCounter = 2
  /\ \E s \in Strategies :
       /\ admitPhase[s] = 1
       /\ \A k \in Slots : _mlcl[k] # s

C4_FirstSuccessWins ==
  /\ [](lastOutcome = "REFUTATION" =>
          /\ pc = "done"
          /\ result = "REFUTATION"
          /\ _contextCounter = 0
          /\ \A k \in Slots : _mlcl[k] = NoContext)
  /\ [][lastOutcome = "REFUTATION" =>
          (stepsOf' = stepsOf /\ lastOutcome' = lastOutcome)]_vars

\* REFUTATION was reported while a second admitted strategy was waiting
\* for its step of the round
C4_Witness ==
  /\ lastOutcome = "REFUTATION"
  /\ \E s \in Admitted, t \in Admitted : stepsOf[s] >= 1 /\ stepsOf[t] = 0

\* C5: run() returns UNKNOWN only with no alive context and an empty
\* queue, and a running scheduler in that situation returns UNKNOWN next.
C5_UnknownIffExhausted ==
  /\ [](result = "UNKNOWN" =>
          (_contextCounter = 0 /\ optionsQueue = {} /\ pc = "done"))
  /\ [][(pc \in {"fill", "step"} /\ _contextCounter = 0
            /\ optionsQueue = {})
          => (pc' = "done" /\ result' = "UNKNOWN")]_vars

\* UNKNOWN was returned after strategies had been run
C5_Witness ==
  /\ result = "UNKNOWN"
  /\ \E s \in Strategies : stepsOf[s] >= 1
  /\ \A s \in pushed : stepsOf[s] >= 1

\* C6: the slice handed to doStep adapts at every contextStep: it shrinks
\* when the average slices of all alive contexts exceed the current
\* maximum and grows when the stepped slot finished quickly (its average
\* slice is below the current maximum).
C6_SliceAdapts ==
  [][(stepsOf' # stepsOf /\ lastOutcome' = "CONTINUE") =>
       /\ (\A k \in Occupied : avgTime'[k] > _maxTimeSlice)
             => _maxTimeSlice' < _maxTimeSlice
       /\ (avgTime'[cursor] < _maxTimeSlice)
             => _maxTimeSlice' > _maxTimeSlice]_vars


(***************************************************************************)
(* SLQueryForwardSubsumption                                               *)
(***************************************************************************)

\* application of a substitution to a literal of an indexed clause
ApplySubst(sigma, l) ==
  [l EXCEPT !.arg = IF @ \in Variables THEN sigma[@] ELSE @]

\* the indexed literal l is a generalization of the query literal m
Generalizes(l, m) ==
  \E sigma \in [Variables -> Args] : ApplySubst(sigma, l) = m

\* _index->getGeneralizations(lit, false, false): the pairs
\* <<clause, literal>> of the index whose literal generalizes lit
getGeneralizations(lit) ==
  {<<c, c[i]>> : <<c, i>> \in
      {ci \in fsIndex \X (1..MaxClauseLen) :
          ci[2] \in DOMAIN ci[1] /\ Generalizes(ci[1][ci[2]], lit)}}

\* the test for a unit subsumer made weaker
unitSubsumerAnyLength(rlen) == rlen >= 1

\* rlen==1: a generalization found in a unit clause subsumes at once
unitSubsumer(rlen) == rlen = 1

\* the results of the first loop for query literal li
UnitHits(li) ==
  {r \in getGeneralizations(fsCl[li]) : unitSubsumer(Len(r[1]))}

\* the clauses entered into gens: neither unit nor longer than cl
gens ==
  {c \in fsIndex :
     /\ ~unitSubsumer(Len(c))
     /\ ~(Len(c) > Len(fsCl))
     /\ \E li \in DOMAIN fsCl : \E r \in getGeneralizations(fsCl[li]) :
          r[1] = c}

\* the MatchInfo list of a clause in gens: one entry <<clauseLiteral, li>>
\* for every literal (*cl)[li] the clause literal generalizes
matchesOf(c) ==
  {m \in Range(c) \X DOMAIN fsCl :
     <<c, m[1]>> \in getGeneralizations(fsCl[m[2]])}

matchCount(c) == Cardinality(matchesOf(c))

\* matchMap: clause literal -> the entries of its list of alternatives,
\* each entry named by the position li of the query literal it holds
matchMap(c, l) == {m[2] : m \in {mm \in matchesOf(c) : mm[1] = l}}

\* MLMatcher::canBeMatched: the literals of mcl can be matched onto
\* pairwise different alternatives under one substitution
canBeMatched(mcl, matches) ==
  \E f \in [DOMAIN mcl -> DOMAIN fsCl] :
    /\ \A i \in DOMAIN mcl : f[i] \in matches[i]
    /\ \A i \in DOMAIN mcl, j \in DOMAIN mcl : f[i] = f[j] => i = j
    /\ \E sigma \in [Variables -> Args] :
         \A i \in DOMAIN mcl : ApplySubst(sigma, mcl[i]) = fsCl[f[i]]

\* the body of the loop over gens: mcl is found to subsume cl
mclMatches(mcl) ==
  /\ ~(Len(mcl) > matchCount(mcl))
  /\ \A li \in DOMAIN mcl : matchMap(mcl, mcl[li]) # {}
  /\ canBeMatched(mcl, [li \in DOMAIN mcl |-> matchMap(mcl, mcl[li])])

\* the return for the empty clause without the assignment to keep
emptyClauseResultKeepUnset ==
  {[keep |-> keep, premises |-> <<>>, queried |-> 0]}

\* lines 94-98: the empty clause is kept and nothing is queried
emptyClauseResult == {[keep |-> TRUE, premises |-> <<>>, queried |-> 0]}

\* the values perform can leave in keep and premises.  The literals are
\* queried in order and the first unit generalization ends the search;
\* gens is walked in the order of its hash table; when neither loop
\* assigns keep the caller's value stays in it.
performResults ==
  IF Len(fsCl) = 0
    THEN emptyClauseResult
  ELSE IF \E li \in DOMAIN fsCl : UnitHits(li) # {}
    THEN LET first == CHOOSE li \in DOMAIN fsCl :
                         /\ UnitHits(li) # {}
                         /\ \A lj \in DOMAIN fsCl :
                              UnitHits(lj) # {} => li <= lj
         IN {[keep |-> FALSE, premises |-> <<r[1]>>, queried |-> first] :
               r \in UnitHits(first)}
  ELSE IF gens # {}
    THEN IF \E mcl \in gens : mclMatches(mcl)
           THEN {[keep |-> FALSE, premises |-> <<mcl>>,
                  queried |-> Len(fsCl)] :
                    mcl \in {c \in gens : mclMatches(c)}}
           ELSE {[keep |-> TRUE, premises |-> <<>>, queried |-> Len(fsCl)]}
  ELSE {[keep |-> keep, premises |-> <<>>, queried |-> Len(fsCl)]}

\* SLQueryForwardSubsumption::perform(cl, keep, toAdd, premises)
SLQueryForwardSubsumption_perform ==
  /\ fsPc = "ready"
  /\ \E r \in performResults :
       /\ keep' = r.keep
       /\ premises' = r.premises
       /\ forwardSubsumed' = IF r.keep THEN forwardSubsumed
                              ELSE forwardSubsumed + 1
       /\ fsQueried' = r.queried
  /\ toAdd' = <<>>
  /\ fsPc' = "done"
  /\ UNCHANGED <<fsIndex, fsCl>>
  /\ UNCHANGED <<schedVars, fdVars, ctVars, restVars>>

\* the scheduler is not running
SchedIdle ==
  /\ prio = [s \in Strategies |-> 0]
  /\ optionsQueue = {}
  /\ pushed = {}
  /\ _capacity = 1
  /\ _contextCounter = 0
  /\ _mlcl = [k \in 0..0 |-> NoContext]
  /\ _maxTimeSlice = 1
  /\ _minTimeSlice = 1
  /\ avgTimes = {0}
  /\ avgTime = [k \in 0..0 |-> 0]
  /\ lastSlice = 0
  /\ lastOutcome = "NONE"
  /\ stepsOf = [s \in Strategies |-> 0]
  /\ admitPhase = [s \in Strategies |-> 0]
  /\ phase = 0
  /\ cursor = 0
  /\ pc = "idle"
  /\ result = "NONE"

GivenClauses == SeqsUpTo(Literals, MaxClauseLen)
IndexedClauses ==
  {c \in SeqsUpTo(Literals, MaxClauseLen) : Len(c) >= 1 /\ NoDuplicates(c)}

FsInit ==
  /\ fsIndex \in {{}} \cup {{c} : c \in IndexedClauses}
  /\ fsCl \in GivenClauses
  /\ fsPc = "ready"
  /\ keep \in BOOLEAN
  /\ premises = <<>>
  /\ toAdd = <<>>
  /\ forwardSubsumed = 0
  /\ fsQueried = 0

InitFS == SchedIdle /\ FsInit /\ FdIdle /\ CtIdle /\ RestIdle

NextFS == SLQueryForwardSubsumption_perform

SpecFS == InitFS /\ [][NextFS]_vars

\* C subsumes D: an instance of C is a sub-multiset of the literals of D
Subsumes(C, D) ==
  \E sigma \in [Variables -> Args] :
    \E f \in [DOMAIN C -> DOMAIN D] :
      /\ \A i \in DOMAIN C, j \in DOMAIN C : f[i] = f[j] => i = j
      /\ \A i \in DOMAIN C : ApplySubst(sigma, C[i]) = D[f[i]]

\* C7: when perform leaves keep false and hands back premise C, some
\* instance of C is a sub-multiset of the literals of the given clause.
C7_SubsumptionSound ==
  (fsPc = "done" /\ ~keep /\ premises # <<>>) =>
     /\ Len(premises) = 1
     /\ premises[1] \in fsIndex
     /\ Len(premises[1]) <= Len(fsCl)
     /\ Subsumes(premises[1], fsCl)

\* a clause of two literals with a shared variable subsumed the given
\* clause
C7_Witness ==
  /\ fsPc = "done"
  /\ ~keep
  /\ premises # <<>>
  /\ Len(premises[1]) = 2
  /\ \A i \in 1..2 : premises[1][i].arg \in Variables
  /\ Len(fsCl) = 2


(***************************************************************************)
(* ForwardDemodulation                                                     *)
(***************************************************************************)

IsVar(t) == t.n = 0 /\ t.leaf \in Variables

\* Ordering::compare(TermList, TermList) for the Knuth-Bendix ordering with
\* all weights 1 and precedence a < b: weight first, then the leaves
compare(s, t) ==
  IF s = t THEN "EQUAL"
  ELSE IF s.leaf = t.leaf
    THEN (IF s.n > t.n THEN "GREATER" ELSE "LESS")
  ELSE IF s.leaf \in Constants /\ t.leaf \in Constants
    THEN (IF s.n > t.n THEN "GREATER"
          ELSE IF s.n < t.n THEN "LESS"
          ELSE IF s.leaf = "b" THEN "GREATER" ELSE "LESS")
  ELSE IF s.leaf \in Variables /\ t.leaf \in Constants
    THEN (IF s.n > t.n THEN "GREATER"
          ELSE IF s.n = t.n /\ t.leaf = "a" THEN "GREATER_EQ"
          ELSE "INCOMPARABLE")
  ELSE IF s.leaf \in Constants /\ t.leaf \in Variables
    THEN (IF s.n < t.n THEN "LESS"
          ELSE IF s.n = t.n /\ s.leaf = "a" THEN "LESS_EQ"
          ELSE "INCOMPARABLE")
  ELSE "INCOMPARABLE"

\* the sides of a literal as a multiset: term -> number of occurrences
\* (a negative equality counts its sides twice)
SideCount(lit, u) ==
  (IF lit.pol THEN 1 ELSE 2) *
    Cardinality({i \in DOMAIN lit.args : lit.args[i] = u})

SidesGreater(l1, l2) ==
  /\ \E u \in Range(l1.args) \cup Range(l2.args) :
       SideCount(l1, u) # SideCount(l2, u)
  /\ \A y \in Range(l2.args) :
       SideCount(l2, y) > SideCount(l1, y) =>
         \E u \in Range(l1.args) :
           /\ SideCount(l1, u) > SideCount(l2, u)
           /\ compare(u, y) = "GREATER"

\* Ordering::compare(Literal*, Literal*): equality is the predicate of the
\* lowest level; literals of one predicate are compared by the multiset
\* extension of the term ordering
compareLiterals(l1, l2) ==
  IF l1 = l2 THEN "EQUAL"
  ELSE IF l1.eq # l2.eq THEN (IF l1.eq THEN "LESS" ELSE "GREATER")
  ELSE IF SidesGreater(l1, l2) THEN "GREATER"
  ELSE IF SidesGreater(l2, l1) THEN "LESS"
  ELSE "INCOMPARABLE"

\* the non-variable subterms of a term, the term itself first
TermSubterms(t) ==
  [m \in 1..(t.n + (IF t.leaf \in Variables THEN 0 ELSE 1)) |->
      [n |-> t.n - m + 1, leaf |-> t.leaf]]

\* NonVariableIterator(lit): the non-variable subterms of the arguments
NonVariableIterator(lit) ==
  IF Len(lit.args) = 1 THEN TermSubterms(lit.args[1])
  ELSE TermSubterms(lit.args[1]) \o TermSubterms(lit.args[2])

RECURSIVE Occurrences(_, _)
Occurrences(lits, li) ==
  IF li > Len(lits) THEN <<>>
  ELSE [i \in DOMAIN NonVariableIterator(lits[li]) |->
           <<li, NonVariableIterator(lits[li])[i]>>]
         \o Occurrences(lits, li + 1)

RECURSIVE FirstOccurrences(_, _)
FirstOccurrences(occs, i) ==
  IF i > Len(occs) THEN <<>>
  ELSE (IF \E j \in 1..(i - 1) : occs[j][2] = occs[i][2]
          THEN <<>> ELSE <<occs[i]>>)
         \o FirstOccurrences(occs, i + 1)

\* the pairs <<li, trm>> for which the two outer loops query the index:
\* a term met again is in attempted and is skipped with its subterms
Visits == FirstOccurrences(Occurrences(fdCl.lits, 1), 1)

\* the indexed left-hand side lhs matches the term trm
MatchesTerm(lhs, trm) ==
  IF lhs.leaf \in Variables
    THEN lhs.n <= trm.n
    ELSE lhs = trm

\* _index->getGeneralizations(trm, true)
getGeneralizationsOfTerm(trm) == {qr \in fdIndex : MatchesTerm(qr.lhs, trm)}

\* qr.substitution applied to a term of the equation, lhs being bound to trm
applyToBoundResult(t, qr, trm) ==
  IF t.leaf \in Variables
    THEN [n |-> t.n + trm.n - qr.lhs.n, leaf |-> trm.leaf]
    ELSE t

\* EqHelper::getOtherEqualitySide(lit, trm)
getOtherEqualitySide(lit, trm) ==
  IF lit.args[1] = trm THEN lit.args[2] ELSE lit.args[1]

\* replacement of the occurrence of trm in a term
ReplaceInTerm(t, trm, tgt) ==
  IF t.leaf = trm.leaf /\ t.n >= trm.n /\ ~IsVar(trm)
    THEN [n |-> t.n - trm.n + tgt.n, leaf |-> tgt.leaf]
    ELSE t

\* EqHelper::replace(lit, trm, rhsS)
replace(lit, trm, tgt) ==
  [lit EXCEPT !.args = [i \in DOMAIN lit.args |->
                           ReplaceInTerm(lit.args[i], trm, tgt)]]

\* EqHelper::isEqTautology(lit)
isEqTautology(lit) == lit.eq /\ lit.pol /\ lit.args[1] = lit.args[2]

\* preordered: the cached argument order of qr.literal is LESS or GREATER
preordered(argOrder) == argOrder = "LESS" \/ argOrder = "GREATER"

\* the ordering test without the exemption of pre-ordered equations
\* turned round: a rewrite that does not go down is let through
orderingRejectsWeak(qr, trm, rhsS) ==
  /\ ~preordered(qr.argOrder)
  /\ (_preorderedOnly /\ compare(trm, rhsS) # "GREATER")

\* line 131: the candidate is passed over
orderingRejects(qr, trm, rhsS) ==
  /\ ~preordered(qr.argOrder)
  /\ (_preorderedOnly \/ compare(trm, rhsS) # "GREATER")

\* toplevelCheck: the option is on and trm is a whole side of the equality
toplevelCheck(lit, trm) ==
  /\ demodulationRedundancyCheck
  /\ lit.eq
  /\ (trm = lit.args[1] \/ trm = lit.args[2])

\* eqLitS: the instance of the equation, its left-hand side being trm
eqLitS(trm, rhsS) == [eq |-> TRUE, pol |-> TRUE, args |-> <<trm, rhsS>>]

\* isMax: no other literal of the clause is greater than eqLitS
isMax(li, trm, rhsS) ==
  \A li2 \in DOMAIN fdCl.lits :
    li2 # li => compareLiterals(eqLitS(trm, rhsS), fdCl.lits[li2]) # "LESS"

\* the redundancy check that never looks at the other literals
toplevelRejectsNever(li, trm, rhsS) == FALSE

\* lines 135-163: the rewrite would not preserve completeness
toplevelRejects(li, trm, rhsS) ==
  /\ toplevelCheck(fdCl.lits[li], trm)
  /\ LET tord == compare(rhsS, getOtherEqualitySide(fdCl.lits[li], trm))
     IN tord # "LESS" /\ tord # "LESS_EQ"
  /\ isMax(li, trm, rhsS)

\* the literals of res: resLit, then the literals of cl other than lit; a
\* slot the loop does not reach keeps what the allocation left in it
resLiterals(lit, resLit) ==
  LET others == SelectSeq(fdCl.lits, LAMBDA curr : curr # lit)
  IN [i \in 1..Len(fdCl.lits) |->
        IF i = 1 THEN resLit
        ELSE IF i - 1 <= Len(others) THEN others[i - 1]
        ELSE Uninitialized]

Max(x, y) == IF x >= y THEN x ELSE y

\* lines 177-194: the clause res
buildDemodulated(lit, resLit, qr) ==
  [lits |-> resLiterals(lit, resLit),
   inputType |-> Max(fdCl.inputType, qr.inputType),
   rule |-> "FORWARD_DEMODULATION",
   parents |-> <<fdCl, qr>>,
   age |-> fdCl.age]

\* the first subterm at or after fdPos with an index entry still to try
HasWork(v) ==
  /\ v \in DOMAIN Visits
  /\ v >= fdPos
  /\ getGeneralizationsOfTerm(Visits[v][2])
       \ (IF v = fdPos THEN fdTried ELSE {}) # {}

\* perform is entered
FDEnter ==
  /\ fdPc = "ready"
  /\ fdPc' = "loop"
  /\ fdPos' = 1
  /\ UNCHANGED <<fdIndex, fdCl, _preorderedOnly, demodulationRedundancyCheck,
                 fdTried, fdCalls, fdKept, forwardDemodulations,
                 forwardDemodulationsToEqTaut>>
  /\ UNCHANGED <<schedVars, fsVars, ctVars, restVars>>

\* one pass through the body of the loop over git (lines 95-202) for the
\* next entry qr the index yields; will and kept are the answers of the
\* performer to willPerform and clauseKept
FDCandidate ==
  /\ fdPc = "loop"
  /\ \E v \in DOMAIN Visits :
       /\ HasWork(v)
       /\ \A w \in DOMAIN Visits : HasWork(w) => v <= w
       /\ LET li == Visits[v][1]
              trm == Visits[v][2]
              lit == fdCl.lits[li]
              tried == IF v = fdPos THEN fdTried ELSE {}
          IN \E qr \in getGeneralizationsOfTerm(trm) \ tried :
               \E will \in BOOLEAN, kept1 \in BOOLEAN, kept2 \in BOOLEAN :
               LET rhsS == applyToBoundResult(qr.rhs, qr, trm)
                   resLit == replace(lit, trm, rhsS)
                   res == buildDemodulated(lit, resLit, qr)
                   call0 == [premise |-> qr, replacement |-> NoClause,
                             li |-> li, trm |-> trm, rhsS |-> rhsS]
                   call1 == [premise |-> qr, replacement |-> res,
                             li |-> li, trm |-> trm, rhsS |-> rhsS]
               IN /\ fdPos' = v
                  /\ fdTried' = tried \cup {qr}
                  /\ IF \/ orderingRejects(qr, trm, rhsS)
                        \/ toplevelRejects(li, trm, rhsS)
                        \/ ~will
                       THEN /\ kept1 /\ kept2
                            /\ UNCHANGED <<fdCalls, fdKept, fdPc,
                                           forwardDemodulations,
                                           forwardDemodulationsToEqTaut>>
                     ELSE IF isEqTautology(resLit) /\ ~kept1
                       THEN /\ kept2
                            /\ fdCalls' = Append(fdCalls, call0)
                            /\ forwardDemodulationsToEqTaut' =
                                 forwardDemodulationsToEqTaut + 1
                            /\ fdKept' = FALSE
                            /\ fdPc' = "done"
                            /\ UNCHANGED forwardDemodulations
                     ELSE /\ isEqTautology(resLit) \/ kept1
                          /\ fdCalls' =
                               (IF isEqTautology(resLit)
                                  THEN Append(fdCalls, call0) ELSE fdCalls)
                                 \o <<call1>>
                          /\ forwardDemodulationsToEqTaut' =
                               forwardDemodulationsToEqTaut
                                 + (IF isEqTautology(resLit) THEN 1 ELSE 0)
                          /\ forwardDemodulations' = forwardDemodulations + 1
                          /\ fdKept' = kept2
                          /\ fdPc' = IF kept2 THEN "loop" ELSE "done"
  /\ UNCHANGED <<fdIndex, fdCl, _preorderedOnly, demodulationRedundancyCheck>>
  /\ UNCHANGED <<schedVars, fsVars, ctVars, restVars>>

\* the loops are exhausted, perform returns
FDReturn ==
  /\ fdPc = "loop"
  /\ \A v \in DOMAIN Visits : ~HasWork(v)
  /\ fdPc' = "done"
  /\ UNCHANGED <<fdIndex, fdCl, _preorderedOnly, demodulationRedundancyCheck,
                 fdPos, fdTried, fdCalls, fdKept, forwardDemodulations,
                 forwardDemodulationsToEqTaut>>
  /\ UNCHANGED <<schedVars, fsVars, ctVars, restVars>>

NextFD == FDEnter \/ FDCandidate \/ FDReturn


Leaves == {t \in Terms : t.n = 0}

\* the first literal of an input clause: an equality of a term and a leaf,
\* or an atom p(t)
FdLiterals ==
  {[eq |-> TRUE, pol |-> b, args |-> <<u, v>>] :
      b \in BOOLEAN, u \in Terms, v \in Leaves}
    \cup {[eq |-> FALSE, pol |-> TRUE, args |-> <<u>>] : u \in Terms}

\* the literals that follow the first one in an input clause
SideLiterals ==
  {[eq |-> TRUE, pol |-> TRUE,
    args |-> <<[n |-> 0, leaf |-> "b"], [n |-> 0, leaf |-> "a"]>>],
   [eq |-> FALSE, pol |-> TRUE, args |-> <<[n |-> 0, leaf |-> "b"]>>]}

FdLiteralLists ==
  {<<>>} \cup
  {<<l>> \o q : l \in FdLiterals, q \in SeqsUpTo(SideLiterals, MaxClauseLen - 1)}

\* the unit equalities lhs = rhs the index can hold under their left-hand
\* side lhs, with the argument order cached in the literal (LESS: the
\* literal is stored as rhs = lhs)
DemodulatorShapes ==
  {e \in [lhs : Terms, rhs : Terms,
          argOrder : {"UNKNOWN", "LESS", "GREATER", "INCOMPARABLE"}] :
     /\ ~IsVar(e.lhs)
     /\ e.rhs.leaf \in Variables => e.lhs.leaf = e.rhs.leaf
     /\ compare(e.lhs, e.rhs) \in {"GREATER", "GREATER_EQ", "INCOMPARABLE"}
     /\ e.argOrder \in {"LESS", "GREATER"} => compare(e.lhs, e.rhs) = "GREATER"
     /\ e.argOrder = "INCOMPARABLE" => compare(e.lhs, e.rhs) # "GREATER"}

WithAttributes(shape, age, color, inputType) ==
  [lhs |-> shape.lhs, rhs |-> shape.rhs, argOrder |-> shape.argOrder,
   age |-> age, color |-> color, inputType |-> inputType]

GivenClause(lits, age, color, inputType) ==
  [lits |-> lits, age |-> age, color |-> color, inputType |-> inputType]

\* perform is about to be called: clause, index and options drawn from
\* the given sets
FdInit(litLists, shapes, ages, colors, inputTypes) ==
  /\ fdCl \in {GivenClause(q, g, c, t) :
                 q \in litLists, g \in ages, c \in colors, t \in inputTypes}
  /\ fdIndex \in {{}} \cup
       {{WithAttributes(e, g, c, t)} :
          e \in shapes, g \in ages, c \in colors, t \in inputTypes}
  /\ _preorderedOnly \in BOOLEAN
  /\ demodulationRedundancyCheck \in BOOLEAN
  /\ fdPc = "ready"
  /\ fdPos = 0
  /\ fdTried = {}
  /\ fdCalls = <<>>
  /\ fdKept = TRUE
  /\ forwardDemodulations = 0
  /\ forwardDemodulationsToEqTaut = 0

InitFD ==
  /\ SchedIdle
  /\ FsIdle
  /\ FdInit(FdLiteralLists, DemodulatorShapes, {0}, {"COLOR_TRANSPARENT"}, {0})
  /\ CtIdle
  /\ RestIdle

SpecFD == InitFD /\ [][NextFD]_vars

CallIndices == DOMAIN fdCalls

\* C8: every rewrite handed to the performer uses an equation that is
\* pre-ordered (cached argument order LESS or GREATER) or rewrites a term
\* that is greater than its replacement, and in preordered-only mode only
\* pre-ordered equations are used.
C8_RewriteOrdered ==
  \A c \in CallIndices :
    LET call == fdCalls[c]
        isPreordered == call.premise.argOrder \in {"LESS", "GREATER"}
    IN /\ isPreordered \/ compare(call.trm, call.rhsS) = "GREATER"
       /\ _preorderedOnly => isPreordered

\* a rewrite with an equation that is not pre-ordered was accepted, and one
\* with a pre-ordered equation in preordered-only mode
C8_Witness ==
  /\ fdCalls # <<>>
  /\ \/ /\ ~_preorderedOnly
        /\ fdCalls[1].premise.argOrder = "INCOMPARABLE"
        /\ compare(fdCalls[1].premise.lhs, fdCalls[1].premise.rhs) # "GREATER"
     \/ /\ _preorderedOnly
        /\ fdCalls[1].premise.argOrder = "LESS"

\* the conditions under which C9 wants a rewrite of trm in literal li by
\* the replacement rhsS refused
C9_MustRefuse(li, trm, rhsS) ==
  LET lit == fdCl.lits[li]
      other == IF lit.args[1] = trm THEN lit.args[2] ELSE lit.args[1]
  IN /\ demodulationRedundancyCheck
     /\ lit.eq
     /\ trm \in Range(lit.args)
     /\ compare(rhsS, other) \notin {"LESS", "LESS_EQ"}
     /\ \A li2 \in DOMAIN fdCl.lits :
          li2 # li =>
            compareLiterals([eq |-> TRUE, pol |-> TRUE,
                             args |-> <<trm, rhsS>>], fdCl.lits[li2]) # "LESS"

\* C9: with the redundancy check on, no rewrite of a whole side of an
\* equality literal reaches the performer when the replacement is not
\* smaller than the other side and the instantiated equation is not
\* smaller than any other literal of the clause.
C9_ToplevelCheck ==
  \A c \in CallIndices :
    ~C9_MustRefuse(fdCalls[c].li, fdCalls[c].trm, fdCalls[c].rhsS)

\* the only candidate for a side of an equality literal of a clause of two
\* literals passed the ordering test and was refused by the redundancy check
C9_Witness ==
  /\ fdPc = "done"
  /\ fdCalls = <<>>
  /\ Len(fdCl.lits) = 2
  /\ \E v \in DOMAIN Visits : \E qr \in fdIndex :
       /\ MatchesTerm(qr.lhs, Visits[v][2])
       /\ qr.argOrder = "GREATER"
       /\ C9_MustRefuse(Visits[v][1], Visits[v][2],
                        applyToBoundResult(qr.rhs, qr, Visits[v][2]))


(***************************************************************************)
(* CTFwSubsAndRes                                                          *)
(***************************************************************************)

MaxResults == 2

\* the clauses held by the code-tree subsumption index
IndexedPremises ==
  {[number |-> 1, age |-> 0, color |-> "COLOR_TRANSPARENT", inputType |-> 0],
   [number |-> 2, age |-> MaxAge, color |-> "COLOR_LEFT", inputType |-> 1],
   [number |-> 3, age |-> 0, color |-> "COLOR_RIGHT", inputType |-> 2]}

\* ColorHelper::compatible: the colors do not combine to COLOR_INVALID
compatible(c1, c2) ==
  c1 = "COLOR_TRANSPARENT" \/ c2 = "COLOR_TRANSPARENT" \/ c1 = c2

\* Clause::requestAux(): a new scope, no clause carries its mark yet
requestAux ==
  /\ _auxInUse' = TRUE
  /\ auxMarked' = {}
  /\ auxRequested' = auxRequested + 1

\* Clause::releaseAux()
releaseAux ==
  /\ _auxInUse' = FALSE
  /\ auxReleased' = auxReleased + 1

\* what sresIt can yield for the clause cl: a subsuming clause, or with
\* subsumption resolution on a clause and the index of the resolved literal
QueryResults(cl) ==
  {[clause |-> p, resolved |-> FALSE, resolvedQueryLiteralIndex |-> 0] :
     p \in IndexedPremises}
    \cup {[clause |-> p, resolved |-> TRUE, resolvedQueryLiteralIndex |-> i] :
            p \in IF _subsumptionResolution THEN IndexedPremises ELSE {},
            i \in 0..(Len(cl.lits) - 1)}

\* the literals of cl but the last one
sresLiteralsDropLast(cl, resolvedIndex) ==
  [next \in 1..(Len(cl.lits) - 1) |-> cl.lits[next]]

\* lines 61-67: the literals of cl but the one at resolvedIndex
sresLiterals(cl, resolvedIndex) ==
  [next \in 1..(Len(cl.lits) - 1) |->
     IF next <= resolvedIndex THEN cl.lits[next] ELSE cl.lits[next + 1]]

\* res with the age of the premise
buildSResClauseAgeOfPremise(cl, resolvedIndex, premise) ==
  [lits |-> sresLiterals(cl, resolvedIndex),
   inputType |-> Max(cl.inputType, premise.inputType),
   rule |-> "SUBSUMPTION_RESOLUTION",
   parents |-> <<cl, premise>>,
   age |-> premise.age]

buildSResClause(cl, resolvedIndex, premise) ==
  [lits |-> sresLiterals(cl, resolvedIndex),
   inputType |-> Max(cl.inputType, premise.inputType),
   rule |-> "SUBSUMPTION_RESOLUTION",
   parents |-> <<cl, premise>>,
   age |-> cl.age]

\* the candidate is passed over whatever its color
colorSkipsNever(cl, premise) == FALSE

\* lines 96-98: the candidate is passed over
colorSkips(cl, premise) == ~compatible(cl.color, premise.color)

\* the yielded clause is taken for one not seen before
alreadyYieldedNever(premise) == FALSE

\* lines 91-94: premise->hasAux(), the clause was yielded before in this call
alreadyYielded(premise) == premise \in auxMarked

\* perform is entered (lines 78-84)
CTEnter ==
  /\ ctPc = "ready"
  /\ IF Len(ctCl.lits) = 0
       THEN /\ ctPc' = "done"
            /\ UNCHANGED <<_auxInUse, auxMarked, auxRequested, auxReleased,
                           ctQueried>>
       ELSE /\ requestAux
            /\ ctPc' = "loop"
            /\ ctQueried' = ctQueried + 1
            /\ UNCHANGED auxReleased
  /\ UNCHANGED <<ctCl, _subsumptionResolution, ctYielded, ctCalls, ctKept,
                 ctForwardSubsumed, forwardSubsumptionResolution>>
  /\ UNCHANGED <<schedVars, fsVars, fdVars, restVars>>

\* one pass through the body of the loop over sresIt (lines 88-113) for the
\* next result the index yields; kept is the answer of the performer to
\* clauseKept
CTResult ==
  /\ ctPc = "loop"
  /\ ctYielded < MaxResults
  /\ \E res \in QueryResults(ctCl) : \E kept \in BOOLEAN :
       LET premise == res.clause
           replacement ==
             IF res.resolved
               THEN buildSResClause(ctCl, res.resolvedQueryLiteralIndex, premise)
               ELSE NoClause
       IN /\ ctYielded' = ctYielded + 1
          /\ IF alreadyYielded(premise)
               THEN /\ kept
                    /\ UNCHANGED <<auxMarked, _auxInUse, auxReleased,
                                   ctCalls, ctKept, ctPc, ctForwardSubsumed,
                                   forwardSubsumptionResolution>>
             ELSE IF colorSkips(ctCl, premise)
               THEN /\ kept
                    /\ auxMarked' = auxMarked \cup {premise}
                    /\ UNCHANGED <<_auxInUse, auxReleased, ctCalls, ctKept,
                                   ctPc, ctForwardSubsumed,
                                   forwardSubsumptionResolution>>
             ELSE /\ ctCalls' = Append(ctCalls, [premise |-> premise,
                                                 replacement |-> replacement,
                                                 res |-> res])
                  /\ forwardSubsumptionResolution' =
                       forwardSubsumptionResolution
                         + (IF res.resolved THEN 1 ELSE 0)
                  /\ ctForwardSubsumed' =
                       ctForwardSubsumed + (IF res.resolved THEN 0 ELSE 1)
                  /\ ctKept' = kept
                  /\ auxMarked' = auxMarked \cup {premise}
                  /\ IF kept
                       THEN UNCHANGED <<ctPc, _auxInUse, auxReleased>>
                       ELSE releaseAux /\ ctPc' = "done"
  /\ UNCHANGED <<ctCl, _subsumptionResolution, auxRequested, ctQueried>>
  /\ UNCHANGED <<schedVars, fsVars, fdVars, restVars>>

\* the loop left without reaching the label fin
CTExhaustedNoRelease ==
  /\ ctPc = "loop"
  /\ ctPc' = "done"
  /\ UNCHANGED <<ctCl, _subsumptionResolution, ctYielded, ctCalls, ctKept,
                 _auxInUse, auxMarked, auxRequested, auxReleased,
                 ctForwardSubsumed, forwardSubsumptionResolution, ctQueried>>
  /\ UNCHANGED <<schedVars, fsVars, fdVars, restVars>>

\* sresIt has no further result (lines 88, 115-116)
CTExhausted ==
  /\ ctPc = "loop"
  /\ releaseAux
  /\ ctPc' = "done"
  /\ UNCHANGED <<ctCl, _subsumptionResolution, ctYielded, ctCalls, ctKept,
                 auxMarked, auxRequested, ctForwardSubsumed,
                 forwardSubsumptionResolution, ctQueried>>
  /\ UNCHANGED <<schedVars, fsVars, fdVars, restVars>>

NextCT == CTEnter \/ CTResult \/ CTExhausted

CtLiteralLists ==
  SeqsUpTo({l \in Literals : l.arg \in Constants /\ l.pol}, MaxClauseLen)

\* perform is about to be called; auxMarked holds what an earlier scope
\* may have left
CtInit(litLists, ages, colors, inputTypes) ==
  /\ ctCl \in {GivenClause(q, g, c, t) :
                 q \in litLists, g \in ages, c \in colors, t \in inputTypes}
  /\ _subsumptionResolution \in BOOLEAN
  /\ ctPc = "ready"
  /\ ctYielded = 0
  /\ ctCalls = <<>>
  /\ ctKept = TRUE
  /\ _auxInUse = FALSE
  /\ auxMarked \in {{}} \cup {{p} : p \in IndexedPremises}
  /\ auxRequested = 0
  /\ auxReleased = 0
  /\ ctForwardSubsumed = 0
  /\ forwardSubsumptionResolution = 0
  /\ ctQueried = 0

\* forward simplification of clauses of every age, color and input type:
\* a run of ForwardDemodulation::perform with an equation b = a, or a run
\* of CTFwSubsAndRes::perform
InitFwSimpl ==
  /\ SchedIdle
  /\ FsIdle
  /\ RestIdle
  /\ \/ /\ FdInit({q \in FdLiteralLists : q # <<>> /\ q[1] \in SideLiterals},
                  {e \in DemodulatorShapes :
                     e.lhs.n = 0 /\ e.argOrder = "GREATER"},
                  0..MaxAge, Colors, InputTypes)
        /\ CtIdle
     \/ /\ FdIdle
        /\ CtInit(CtLiteralLists, 0..MaxAge, Colors, InputTypes)

NextFwSimpl == NextFD \/ NextCT

SpecFwSimpl == InitFwSimpl /\ [][NextFwSimpl]_vars

\* the replacement clauses handed to the performer
Replacements ==
  ({fdCalls[c].replacement : c \in DOMAIN fdCalls}
     \cup {ctCalls[c].replacement : c \in DOMAIN ctCalls}) \ {NoClause}

\* C10 as stated: every replacement clause built by forward demodulation
\* or forward subsumption resolution is older than each of its parents,
\* age(child) >= 1 + max age(parent).
C10_AgeAboveParents ==
  \A r \in Replacements :
    \A i \in DOMAIN r.parents : r.age >= 1 + r.parents[i].age

\* C10: every replacement clause built by forward demodulation or forward
\* subsumption resolution has the age of the clause it replaces, its first
\* parent, whatever the age of the other parent.
C10_AgeOfReplacedClause ==
  \A r \in Replacements : r.age = r.parents[1].age

\* a replacement built by subsumption resolution with a premise older than
\* the clause it replaces
C10_Witness ==
  \E r \in Replacements :
    /\ r.rule = "SUBSUMPTION_RESOLUTION"
    /\ r.parents[2].age > r.parents[1].age

\* C11: a run of CTFwSubsAndRes::perform acquires the auxiliary mark at
\* most once, holds it exactly while it is inside the loop, has released
\* it exactly once when it returns, and acquires nothing for the empty
\* clause.
C11_AuxBracketed ==
  /\ auxReleased <= auxRequested
  /\ auxRequested <= 1
  /\ _auxInUse <=> auxRequested = auxReleased + 1
  /\ _auxInUse <=> ctPc = "loop"
  /\ ctPc = "done" =>
       /\ auxReleased = auxRequested
       /\ auxRequested = (IF Len(ctCl.lits) = 0 THEN 0 ELSE 1)

\* perform has returned because the clause was no longer kept, after one
\* candidate was passed over
C11_Witness ==
  /\ ctPc = "done"
  /\ ~ctKept
  /\ ctYielded = 2
  /\ Len(ctCalls) = 1
  /\ auxRequested = 1
  /\ auxReleased = 1
  /\ ~_auxInUse

\* C12: no premise whose color is opposite to the color of the given
\* clause (LEFT against RIGHT) is handed to the performer, as a subsumer or
\* as a partner of subsumption resolution.
C12_NoCrossColorPremise ==
  \A c \in DOMAIN ctCalls :
    {ctCl.color, ctCalls[c].premise.color} # {"COLOR_LEFT", "COLOR_RIGHT"}

\* for a LEFT clause a RIGHT candidate was passed over and a LEFT partner
\* of subsumption resolution was handed to the performer
C12_Witness ==
  /\ ctPc # "idle"
  /\ ctCl.color = "COLOR_LEFT"
  /\ \E p \in auxMarked : p.color = "COLOR_RIGHT"
  /\ Len(ctCalls) = 1
  /\ ctCalls[1].res.resolved
  /\ ctCalls[1].premise.color = "COLOR_LEFT"

\* C14: the replacement built for a resolved literal index i of a clause
\* of n literals has the n-1 literals of the clause other than the one at
\* index i in their order, the rule SUBSUMPTION_RESOLUTION, the parents
\* (cl, premise) and the larger of the two input types.
C14_SResReplacement ==
  \A c \in DOMAIN ctCalls :
    ctCalls[c].res.resolved =>
      LET r == ctCalls[c].replacement
          p == ctCalls[c].premise
          i == ctCalls[c].res.resolvedQueryLiteralIndex
          n == Len(ctCl.lits)
      IN /\ i < n
         /\ Len(r.lits) = n - 1
         /\ r.lits = SubSeq(ctCl.lits, 1, i) \o SubSeq(ctCl.lits, i + 2, n)
         /\ r.rule = "SUBSUMPTION_RESOLUTION"
         /\ r.parents = <<ctCl, p>>
         /\ r.inputType \in {ctCl.inputType, p.inputType}
         /\ r.inputType >= ctCl.inputType
         /\ r.inputType >= p.inputType

\* the first of two different literals was resolved away with a premise of
\* a larger input type
C14_Witness ==
  /\ ctCalls # <<>>
  /\ ctCalls[1].res.resolved
  /\ ctCalls[1].res.resolvedQueryLiteralIndex = 0
  /\ Len(ctCl.lits) = 2
  /\ ctCl.lits[1] # ctCl.lits[2]
  /\ ctCalls[1].replacement.lits = <<ctCl.lits[2]>>
  /\ ctCalls[1].premise.inputType > ctCl.inputType

\* C15: on every accepted rewrite of a clause of n literals the replacement
\* has n literals, every slot filled: the rewritten literal followed by the
\* other literals of the clause in their order; its rule is
\* FORWARD_DEMODULATION and its parents are the clause and the equation.
C15_DemodulationReplacement ==
  \A c \in DOMAIN fdCalls :
    fdCalls[c].replacement # NoClause =>
      LET r == fdCalls[c].replacement
          li == fdCalls[c].li
          n == Len(fdCl.lits)
      IN /\ Len(r.lits) = n
         /\ \A k \in 1..n : r.lits[k] # Uninitialized
         /\ r.lits = <<replace(fdCl.lits[li], fdCalls[c].trm, fdCalls[c].rhsS)>>
                       \o SubSeq(fdCl.lits, 1, li - 1)
                       \o SubSeq(fdCl.lits, li + 1, n)
         /\ r.rule = "FORWARD_DEMODULATION"
         /\ r.parents = <<fdCl, fdCalls[c].premise>>


(***************************************************************************)
(* InnerRewriting                                                          *)
(***************************************************************************)

MaxRwLen == 3

\* EqHelper::hasGreaterEqualitySide(rwLit, ordering, lhs, rhs)
hasGreaterEqualitySide(rwLit) ==
  LET ord == compare(rwLit.args[1], rwLit.args[2])
  IN IF ord = "GREATER"
       THEN [found |-> TRUE, lhs |-> rwLit.args[1], rhs |-> rwLit.args[2]]
     ELSE IF ord = "LESS"
       THEN [found |-> TRUE, lhs |-> rwLit.args[2], rhs |-> rwLit.args[1]]
     ELSE [found |-> FALSE, lhs |-> rwLit.args[1], rhs |-> rwLit.args[2]]

\* line 31: the literal at index i can rewrite
isRewriter(i) ==
  /\ irCl[i].eq
  /\ ~irCl[i].pol
  /\ hasGreaterEqualitySide(irCl[i]).found

\* EqHelper::replace(lit, lhs, rhs) for the sides of the literal at index i
rewrittenWith(i, lit) ==
  replace(lit, hasGreaterEqualitySide(irCl[i]).lhs,
          hasGreaterEqualitySide(irCl[i]).rhs)

\* lines 28-36: the pairs (i, j) for which the body of the inner loop runs
rewritePairs ==
  {ij \in (DOMAIN irCl) \X (DOMAIN irCl) :
     /\ isRewriter(ij[1])
     /\ ij[1] # ij[2]
     /\ rewrittenWith(ij[1], irCl[ij[2]]) # irCl[ij[2]]}

\* the first such pair in the order of the two loops
firstRewritePair ==
  CHOOSE ij \in rewritePairs :
    \A kl \in rewritePairs :
      ij[1] < kl[1] \/ (ij[1] = kl[1] /\ ij[2] <= kl[2])

\* the literals behind j are copied without the test for a tautology
laterTautologyNever(i, j) == FALSE

\* lines 55-64: a literal behind j is rewritten to an equality tautology
laterTautology(i, j) ==
  \E k \in DOMAIN irCl :
    k # i /\ k > j /\ isEqTautology(rewrittenWith(i, irCl[k]))

\* lines 44-67: the clause res
buildRewritten(i, j) ==
  [lits |-> [k \in DOMAIN irCl |->
               IF k = i THEN irCl[i]
               ELSE IF k < j THEN irCl[k]
               ELSE rewrittenWith(i, irCl[k])],
   rule |-> "INNER_REWRITING",
   parents |-> <<irCl>>]

\* InnerRewriting::perform(cl, simplPerformer); the performer deletes the
\* clause on every call of perform
InnerRewriting_perform ==
  /\ irPc = "ready"
  /\ irPc' = "done"
  /\ IF rewritePairs = {}
       THEN UNCHANGED <<irCalls, irKept, innerRewrites, innerRewritesToEqTaut>>
     ELSE LET i == firstRewritePair[1]
              j == firstRewritePair[2]
          IN /\ irKept' = FALSE
             /\ IF \/ isEqTautology(rewrittenWith(i, irCl[j]))
                   \/ laterTautology(i, j)
                  THEN /\ irCalls' = Append(irCalls, [replacement |-> NoClause])
                       /\ innerRewritesToEqTaut' = innerRewritesToEqTaut + 1
                       /\ UNCHANGED innerRewrites
                  ELSE /\ irCalls' = Append(irCalls,
                                       [replacement |-> buildRewritten(i, j)])
                       /\ innerRewrites' = innerRewrites + 1
                       /\ UNCHANGED innerRewritesToEqTaut
  /\ UNCHANGED irCl
  /\ UNCHANGED <<schedVars, fsVars, fdVars, ctVars, mainVars, intVars,
               lateVars>>

\* the literals of the clauses handed to InnerRewriting: equalities of a
\* constant and a leaf that are no tautologies, and atoms p(c)
RwLiterals ==
  {l \in FdLiterals :
     /\ \A k \in DOMAIN l.args : l.args[k].n = 0
     /\ l.args[1].leaf \in Constants
     /\ l.eq => ~(l.pol /\ l.args[1] = l.args[2])}

IrInit ==
  /\ irCl \in SeqsUpTo(RwLiterals, MaxRwLen)
  /\ irPc = "ready"
  /\ irCalls = <<>>
  /\ irKept = TRUE
  /\ innerRewrites = 0
  /\ innerRewritesToEqTaut = 0

InitIR ==
  /\ SchedIdle /\ FsIdle /\ FdIdle /\ CtIdle
  /\ IrInit /\ MainIdle /\ IntIdle /\ LateIdle

NextIR == InnerRewriting_perform

SpecIR == InitIR /\ [][NextIR]_vars

\* the greater side of an equality literal and the other side
C16_Greater(l) ==
  IF compare(l.args[1], l.args[2]) = "GREATER" THEN l.args[1] ELSE l.args[2]

C16_Smaller(l) ==
  IF compare(l.args[1], l.args[2]) = "GREATER" THEN l.args[2] ELSE l.args[1]

\* the negative equality literals with a greater side that rewrite some
\* other literal of the clause
C16_Rewriters ==
  {i \in DOMAIN irCl :
     /\ irCl[i].eq /\ ~irCl[i].pol
     /\ compare(irCl[i].args[1], irCl[i].args[2]) \in {"GREATER", "LESS"}
     /\ \E j \in DOMAIN irCl :
          /\ j # i
          /\ replace(irCl[j], C16_Greater(irCl[i]), C16_Smaller(irCl[i]))
               # irCl[j]}

\* C16: after perform, with i the first negative equality literal that
\* rewrites another literal: if some other literal is rewritten to an
\* equality tautology the performer was called once, without replacement,
\* and the clause is not kept; otherwise it was called once with a
\* replacement of the same length that has the literal i at index i and
\* at every other index the rewritten form of the literal at that index.
C16_InnerRewriting ==
  (irPc = "done" /\ C16_Rewriters # {}) =>
    LET i == CHOOSE r \in C16_Rewriters : \A q \in C16_Rewriters : r <= q
        rw(k) == replace(irCl[k], C16_Greater(irCl[i]), C16_Smaller(irCl[i]))
    IN /\ Len(irCalls) = 1
       /\ ~irKept
       /\ IF \E k \in DOMAIN irCl : k # i /\ isEqTautology(rw(k))
            THEN irCalls[1].replacement = NoClause
            ELSE /\ irCalls[1].replacement # NoClause
                 /\ Len(irCalls[1].replacement.lits) = Len(irCl)
                 /\ \A k \in DOMAIN irCl :
                      irCalls[1].replacement.lits[k] =
                        (IF k = i THEN irCl[i] ELSE rw(k))

\* the literal behind the first rewritten one became a tautology and the
\* clause was deleted
C16_Witness ==
  /\ irPc = "done"
  /\ Len(irCl) = 3
  /\ C16_Rewriters # {}
  /\ irCalls = <<[replacement |-> NoClause]>>
  /\ ~isEqTautology(replace(irCl[2], C16_Greater(irCl[1]),
                            C16_Smaller(irCl[1])))
  /\ isEqTautology(replace(irCl[3], C16_Greater(irCl[1]),
                           C16_Smaller(irCl[1])))

\* forward subsumption of a clause: a run of
\* SLQueryForwardSubsumption::perform or of CTFwSubsAndRes::perform
InitFwSubs ==
  /\ SchedIdle
  /\ FdIdle
  /\ RestIdle
  /\ \/ FsInit /\ CtIdle
     \/ FsIdle /\ CtInit(CtLiteralLists, {0}, Colors, {0})

NextFwSubs == NextFS \/ NextCT

SpecFwSubs == InitFwSubs /\ [][NextFwSubs]_vars

\* C17: perform on the empty clause returns with the clause kept, no index
\* queried, no premise reported, the performer not called and no
\* statistics counter changed, in SLQueryForwardSubsumption and in
\* CTFwSubsAndRes.
C17_EmptyClauseSurvives ==
  /\ (fsPc = "done" /\ Len(fsCl) = 0) =>
       /\ keep
       /\ premises = <<>>
       /\ toAdd = <<>>
       /\ fsQueried = 0
       /\ forwardSubsumed = 0
  /\ (ctPc = "done" /\ Len(ctCl.lits) = 0) =>
       /\ ctKept
       /\ ctCalls = <<>>
       /\ ctQueried = 0
       /\ ctYielded = 0
       /\ ctForwardSubsumed = 0
       /\ forwardSubsumptionResolution = 0

\* SLQueryForwardSubsumption::perform has returned for the empty clause
\* with a clause in the index
C17_Witness ==
  /\ fsPc = "done"
  /\ Len(fsCl) = 0
  /\ fsIndex # {}
  /\ keep


(***************************************************************************)
(* vampire.cpp                                                             *)
(***************************************************************************)

Modes ==
  {"MODE_AXIOM_SELECTION", "MODE_GROUNDING", "MODE_INST_GEN", "MODE_SPIDER",
   "MODE_CONSEQUENCE_ELIMINATION", "MODE_VAMPIRE", "MODE_CASC",
   "MODE_CASC_SIMPLE_LTB", "MODE_CASC_LTB", "MODE_CLAUSIFY", "MODE_PROFILE",
   "MODE_PROGRAM_ANALYSIS", "MODE_RULE", "MODE_OTHER"}

TerminationReasons ==
  {"REFUTATION", "SATISFIABLE", "TIME_LIMIT", "MEMORY_LIMIT", "UNKNOWN",
   "REFUTATION_NOT_FOUND"}

\* the exceptions the handlers of main() catch (lines 546-571)
Thrown == {"UserErrorException", "Exception", "bad_alloc"}

\* the exceptions groundingMode catches itself (lines 434-442)
LimitExceeded == {"MemoryLimitExceededException", "TimeLimitExceededException"}

\* the mode function is left by an exception that reaches main()
leaveByException(e) ==
  /\ modeOutcome' = e
  /\ mainPc' = "catch"
  /\ UNCHANGED <<mode, vampireReturnValue, terminationReason, exitCode>>

\* a mode function whose last statement is vampireReturnValue=0
modeEndingWithZero(m) ==
  /\ mainPc = "dispatch"
  /\ mode = m
  /\ \/ /\ modeOutcome' = "clean"
        /\ vampireReturnValue' = 0
        /\ mainPc' = "return"
        /\ UNCHANGED <<mode, terminationReason, exitCode>>
     \/ \E e \in Thrown : leaveByException(e)
  /\ UNCHANGED <<schedVars, fsVars, fdVars, ctVars, irVars, intVars,
               lateVars>>

\* lines 466-472: the command line is read
interpretCommandLine ==
  /\ mainPc = "start"
  /\ \/ /\ mainPc' = "dispatch"
        /\ UNCHANGED <<mode, vampireReturnValue, terminationReason,
                       modeOutcome, exitCode>>
     \/ leaveByException("UserErrorException")
  /\ UNCHANGED <<schedVars, fsVars, fdVars, ctVars, irVars, intVars,
               lateVars>>

axiomSelectionMode == modeEndingWithZero("MODE_AXIOM_SELECTION")

\* lines 368-443: no statement of groundingMode assigns vampireReturnValue
groundingMode ==
  /\ mainPc = "dispatch"
  /\ mode = "MODE_GROUNDING"
  /\ \/ /\ \E o \in {"clean"} \cup LimitExceeded : modeOutcome' = o
        /\ mainPc' = "return"
        /\ UNCHANGED <<mode, vampireReturnValue, terminationReason, exitCode>>
     \/ \E e \in Thrown : leaveByException(e)
  /\ UNCHANGED <<schedVars, fsVars, fdVars, ctVars, irVars, intVars,
               lateVars>>

\* lines 324-366: the value is set whatever iga.run() returned
instGenMode == modeEndingWithZero("MODE_INST_GEN")

\* lines 227-263
spiderMode ==
  /\ mainPc = "dispatch"
  /\ mode = "MODE_SPIDER"
  /\ \/ \E reason \in TerminationReasons :
          /\ terminationReason' = reason
          /\ modeOutcome' = "clean"
          /\ vampireReturnValue' =
               IF reason = "REFUTATION" THEN 0 ELSE vampireReturnValue
     \/ /\ modeOutcome' = "caught"
        /\ UNCHANGED <<vampireReturnValue, terminationReason>>
  /\ mainPc' = "return"
  /\ UNCHANGED <<mode, exitCode>>
  /\ UNCHANGED <<schedVars, fsVars, fdVars, ctVars, irVars, intVars,
               lateVars>>

\* lines 202-224, for MODE_VAMPIRE and MODE_CONSEQUENCE_ELIMINATION
vampireMode ==
  /\ mainPc = "dispatch"
  /\ mode \in {"MODE_VAMPIRE", "MODE_CONSEQUENCE_ELIMINATION"}
  /\ \/ \E reason \in TerminationReasons :
          /\ terminationReason' = reason
          /\ modeOutcome' = "clean"
          /\ vampireReturnValue' =
               IF reason = "REFUTATION" THEN 0 ELSE vampireReturnValue
          /\ mainPc' = "return"
          /\ UNCHANGED <<mode, exitCode>>
     \/ \E e \in Thrown : leaveByException(e)
  /\ UNCHANGED <<schedVars, fsVars, fdVars, ctVars, irVars, intVars,
               lateVars>>

\* lines 492-497: CASCMode::perform tells whether the problem was solved
cascMode ==
  /\ mainPc = "dispatch"
  /\ mode = "MODE_CASC"
  /\ \/ \E solved \in BOOLEAN :
          /\ modeOutcome' = "clean"
          /\ vampireReturnValue' = IF solved THEN 0 ELSE vampireReturnValue
          /\ mainPc' = "return"
          /\ UNCHANGED <<mode, terminationReason, exitCode>>
     \/ \E e \in Thrown : leaveByException(e)
  /\ UNCHANGED <<schedVars, fsVars, fdVars, ctVars, irVars, intVars,
               lateVars>>

simpleLTBMode == modeEndingWithZero("MODE_CASC_SIMPLE_LTB")

cltbMode == modeEndingWithZero("MODE_CASC_LTB")

clausifyMode == modeEndingWithZero("MODE_CLAUSIFY")

profileMode == modeEndingWithZero("MODE_PROFILE")

programAnalysisMode == modeEndingWithZero("MODE_PROGRAM_ANALYSIS")

\* lines 523-527: USER_ERROR for the rule mode and for any other mode
unsupportedMode ==
  /\ mainPc = "dispatch"
  /\ mode \in {"MODE_RULE", "MODE_OTHER"}
  /\ leaveByException("UserErrorException")
  /\ UNCHANGED <<schedVars, fsVars, fdVars, ctVars, irVars, intVars,
               lateVars>>

\* lines 546-571: a handler of main() reports the exception
catchException ==
  /\ mainPc = "catch"
  /\ mainPc' = "return"
  /\ UNCHANGED <<mode, vampireReturnValue, terminationReason, modeOutcome,
                 exitCode>>
  /\ UNCHANGED <<schedVars, fsVars, fdVars, ctVars, irVars, intVars,
               lateVars>>

\* line 574
returnFromMain ==
  /\ mainPc = "return"
  /\ exitCode' = vampireReturnValue
  /\ mainPc' = "returned"
  /\ UNCHANGED <<mode, vampireReturnValue, terminationReason, modeOutcome>>
  /\ UNCHANGED <<schedVars, fsVars, fdVars, ctVars, irVars, intVars,
               lateVars>>

MainInit ==
  /\ mode \in Modes
  /\ mainPc = "start"
  /\ vampireReturnValue = 1
  /\ terminationReason = "UNKNOWN"
  /\ modeOutcome = "none"
  /\ exitCode = NoExit

InitMain ==
  /\ SchedIdle /\ FsIdle /\ FdIdle /\ CtIdle
  /\ IrIdle /\ MainInit /\ IntIdle /\ LateIdle

NextMain ==
  \/ interpretCommandLine
  \/ axiomSelectionMode
  \/ groundingMode
  \/ instGenMode
  \/ spiderMode
  \/ vampireMode
  \/ cascMode
  \/ simpleLTBMode
  \/ cltbMode
  \/ clausifyMode
  \/ profileMode
  \/ programAnalysisMode
  \/ unsupportedMode
  \/ catchException
  \/ returnFromMain

SpecMain == InitMain /\ [][NextMain]_vars

\* C18: when vampire mode or spider mode has run the prover, the exit code
\* is 0 exactly if the termination reason is REFUTATION or SATISFIABLE.
C18_ExitCodeOfProving ==
  (/\ mainPc = "returned"
   /\ mode \in {"MODE_VAMPIRE", "MODE_SPIDER"}
   /\ modeOutcome = "clean") =>
    (exitCode = 0 <=> terminationReason \in {"REFUTATION", "SATISFIABLE"})

NonProvingModes ==
  {"MODE_AXIOM_SELECTION", "MODE_GROUNDING", "MODE_INST_GEN",
   "MODE_CLAUSIFY", "MODE_PROFILE", "MODE_PROGRAM_ANALYSIS",
   "MODE_CASC_SIMPLE_LTB", "MODE_CASC_LTB"}

\* C19: a mode that does not prove exits with 0 when it finished cleanly
\* and with 1 when it was left by a user error or another exception, and
\* vampireReturnValue is 0 only once the mode has completed.
C19_ExitCodeOfOtherModes ==
  /\ (mainPc = "returned" /\ mode \in NonProvingModes) =>
       /\ modeOutcome = "clean" => exitCode = 0
       /\ modeOutcome \in Thrown => exitCode = 1
  /\ vampireReturnValue = 0 =>
       /\ mainPc \in {"return", "returned"}
       /\ modeOutcome = "clean"


(***************************************************************************)
(* Kernel/Theory.cpp: IntegerConstantType                                  *)
(***************************************************************************)

\* InnerType is a signed integer of IntWidth bits
IntWidth == 4

IntMin == -(2 ^ (IntWidth - 1))

IntMax == 2 ^ (IntWidth - 1) - 1

InnerType == IntMin..IntMax

Abs(a) == IF a < 0 THEN -a ELSE a

\* the quotient of the machine division, rounded towards zero
TruncDiv(a, b) ==
  IF (a < 0) = (b < 0) THEN Abs(a) \div Abs(b) ELSE -(Abs(a) \div Abs(b))

TruncRem(a, b) == a - b * TruncDiv(a, b)

\* Int::safePlus and its siblings: whether the result fits, and the result
safeResult(exact) == [ok |-> exact \in InnerType, res |-> exact]

safePlus(a, b) == safeResult(a + b)

safeMinus(a, b) == safeResult(a - b)

safeUnaryMinus(a) == safeResult(-a)

safeMultiply(a, b) == safeResult(a * b)

ArithmeticException == [kind |-> "ArithmeticException", val |-> 0]

IntegerConstantType(v) == [kind |-> "value", val |-> v]

\* what a machine division of the minimum value by -1 can do: the quotient
\* is not representable, so the behaviour is undefined; the instruction
\* traps, or a remainder of 0 is delivered
UndefinedRemainder == {[kind |-> "fault", val |-> 0], IntegerConstantType(0)}

throwUnlessOk(r) == IF r.ok THEN IntegerConstantType(r.res) ELSE ArithmeticException

finishOperator(op, results) ==
  /\ icPc = "call"
  /\ icOp = op
  /\ icResult' \in results
  /\ icPc' = "done"
  /\ UNCHANGED <<icOp, icLhs, icRhs>>
  /\ UNCHANGED <<schedVars, fsVars, fdVars, ctVars, irVars, mainVars,
               lateVars>>

operatorPlus == finishOperator("+", {throwUnlessOk(safePlus(icLhs, icRhs))})

operatorMinus == finishOperator("-", {throwUnlessOk(safeMinus(icLhs, icRhs))})

operatorUnaryMinus == finishOperator("neg", {throwUnlessOk(safeUnaryMinus(icLhs))})

operatorMultiply == finishOperator("*", {throwUnlessOk(safeMultiply(icLhs, icRhs))})

operatorDivide ==
  finishOperator("/",
    IF icRhs = 0 THEN {ArithmeticException}
    ELSE IF icLhs = IntMin /\ icRhs = -1 THEN {ArithmeticException}
    ELSE {IntegerConstantType(TruncDiv(icLhs, icRhs))})

operatorModulo ==
  finishOperator("%",
    IF icRhs = 0 THEN {ArithmeticException}
    ELSE IF icLhs = IntMin /\ icRhs = -1 THEN UndefinedRemainder
    ELSE {IntegerConstantType(TruncRem(icLhs, icRhs))})

Operators == {"+", "-", "neg", "*", "/", "%"}

IntInit ==
  /\ icOp \in Operators
  /\ icLhs \in InnerType
  /\ icRhs \in (IF icOp = "neg" THEN {0} ELSE InnerType)
  /\ icPc = "call"
  /\ icResult = [kind |-> "none", val |-> 0]

InitInt ==
  /\ SchedIdle /\ FsIdle /\ FdIdle /\ CtIdle
  /\ IrIdle /\ MainIdle /\ IntInit /\ LateIdle

NextInt ==
  \/ operatorPlus
  \/ operatorMinus
  \/ operatorUnaryMinus
  \/ operatorMultiply
  \/ operatorDivide
  \/ operatorModulo

SpecInt == InitInt /\ [][NextInt]_vars

\* the result over the mathematical integers; none for a zero divisor
ExactResult(op, a, b) ==
  CASE op = "+" -> {a + b}
    [] op = "-" -> {a - b}
    [] op = "neg" -> {-a}
    [] op = "*" -> {a * b}
    [] op = "/" -> IF b = 0 THEN {} ELSE {TruncDiv(a, b)}
    [] op = "%" -> IF b = 0 THEN {} ELSE {TruncRem(a, b)}

\* C20: every operation of IntegerConstantType returns the exact result,
\* which is representable, or raises ArithmeticException; a zero divisor
\* and the minimum value divided by or taken modulo -1 raise it.
C20_NeverWraps ==
  icPc = "done" =>
    /\ icResult.kind \in {"value", "ArithmeticException"}
    /\ icResult.kind = "value" =>
         /\ icResult.val \in ExactResult(icOp, icLhs, icRhs)
         /\ icResult.val \in InnerType
    /\ (/\ icOp \in {"/", "%"}
        /\ icRhs = 0 \/ (icLhs = IntMin /\ icRhs = -1)) =>
         icResult.kind = "ArithmeticException"


\* C25: within one call of CTFwSubsAndRes::perform no premise is handed to
\* the performer twice, and the marks seen inside the loop are those of this
\* call only: each marked clause was performed or passed over for its color
\* in this call.
C25_PremiseAtMostOnce ==
  /\ \A i, j \in DOMAIN ctCalls :
       i # j => ctCalls[i].premise # ctCalls[j].premise
  /\ ctPc = "loop" =>
       \A p \in auxMarked :
         \/ colorSkips(ctCl, p)
         \/ \E i \in DOMAIN ctCalls : ctCalls[i].premise = p

\* a premise was yielded a second time and passed over
C25_Witness ==
  /\ ctPc = "loop"
  /\ ctCl.color = "COLOR_TRANSPARENT"
  /\ ctYielded = 2
  /\ Len(ctCalls) = 1
  /\ auxMarked = {ctCalls[1].premise}


\* C26: on return from SLQueryForwardSubsumption::perform for a non-empty
\* clause, keep is true whenever no subsuming clause was found, whatever it
\* was on entry, and forwardSubsumed was incremented exactly if one was found.
C26_KeepAssigned ==
  (fsPc = "done" /\ Len(fsCl) > 0) =>
    /\ premises = <<>> => keep
    /\ forwardSubsumed = 1 <=> premises # <<>>


\* the rewrite of call c turned its literal into an equality tautology
RewroteToTautology(c) ==
  isEqTautology(replace(fdCl.lits[fdCalls[c].li], fdCalls[c].trm,
                        fdCalls[c].rhsS))

\* C27: a rewrite of forward demodulation that yields an equality tautology
\* hands the performer the premise without a replacement and nothing else,
\* and forwardDemodulations counts the other rewrites only.
C27_TautologyDeletes ==
  /\ \A c \in DOMAIN fdCalls :
       RewroteToTautology(c) => fdCalls[c].replacement = NoClause
  /\ forwardDemodulations =
       Cardinality({c \in DOMAIN fdCalls : ~RewroteToTautology(c)})


(***************************************************************************)
(* Shell/BFNTMainLoop.cpp                                                  *)
(***************************************************************************)

\* the largest model size a child is forked for
MaxModelSize == 2

BFNT_CHILD_RESULT_SAT == 0

BFNT_CHILD_RESULT_UNSAT == 6

BFNT_CHILD_RESULT_UNKNOWN == 7

VAMP_RESULT_STATUS_OTHER_SIGNAL == 2

VAMP_RESULT_STATUS_SIGINT == 3

\* what waitpid can store in status: the child exited with a code, among
\* them 1 for a failed run, or was terminated by a signal
ChildStatuses ==
  {[kind |-> "exited", code |-> c] :
     c \in {BFNT_CHILD_RESULT_SAT, BFNT_CHILD_RESULT_UNSAT,
            BFNT_CHILD_RESULT_UNKNOWN, VAMP_RESULT_STATUS_OTHER_SIGNAL,
            VAMP_RESULT_STATUS_SIGINT, 1}}
    \cup {[kind |-> "signaled", code |-> sig] : sig \in {"SIGINT", "SIGSEGV"}}

\* only the signal is looked at, not the exit status
endedBySIGINTSignalOnly(st) == st.kind = "signaled" /\ st.code = "SIGINT"

\* lines 179-180: the child was ended by a keyboard interrupt
endedBySIGINT(st) ==
  \/ st.kind = "signaled" /\ st.code = "SIGINT"
  \/ st.kind = "exited" /\ st.code = VAMP_RESULT_STATUS_SIGINT

\* lines 188-205: the termination reason spawnChild returns, or the
\* exception it throws
resultOfStatus(st) ==
  IF st.kind = "exited"
    THEN CASE st.code = BFNT_CHILD_RESULT_SAT -> "SATISFIABLE"
           [] st.code = BFNT_CHILD_RESULT_UNSAT -> "REFUTATION"
           [] st.code = VAMP_RESULT_STATUS_OTHER_SIGNAL -> "INVALID_OPERATION"
           [] OTHER -> "UNKNOWN"
    ELSE "UNKNOWN"

\* the constructor copies the options without clearing bfnt
childOptsBfntCopied(bfnt) == bfnt

\* lines 67-78: _childOpts(opt), then _childOpts.setBfnt(false)
childOptsBfnt(bfnt) == FALSE

\* MainLoop::createFromOptions: the main loop the options ask for
createFromOptions(bfnt) == IF bfnt THEN "BFNTMainLoop" ELSE "SaturationAlgorithm"

\* runImpl returns whatever the child reported
returnsChildResultAlways(reason) == reason \in {"SATISFIABLE", "REFUTATION"}

\* lines 223-225
returnsChildResult(reason) == reason = "SATISFIABLE"

\* lines 216-220: the head of the loop of runImpl
runImpl_loop ==
  /\ bfPc = "loop"
  /\ bfChecks' = bfChecks + 1
  /\ \E timeLimitReached \in BOOLEAN :
       /\ modelSize > MaxModelSize => timeLimitReached
       /\ IF timeLimitReached
            THEN /\ bfResult' = "TIME_LIMIT"
                 /\ bfPc' = "returned"
            ELSE /\ bfPc' = "spawnChild"
                 /\ UNCHANGED bfResult
  /\ UNCHANGED <<modelSize, _childOptsBfnt, sigintIgnored, status,
                 childResult, spawned, childMainLoops, bfEvents,
                 sigintsDropped>>
  /\ UNCHANGED <<earlyVars, lateButBf>>

\* line 153 for the parent and lines 102-117 for the child
spawnChild_fork ==
  /\ bfPc = "spawnChild"
  /\ spawned' = Append(spawned, modelSize)
  /\ childMainLoops' = childMainLoops \cup {createFromOptions(_childOptsBfnt)}
  /\ bfEvents' = <<"fork">>
  /\ status' = NoStatus
  /\ bfPc' = "forked"
  /\ UNCHANGED <<modelSize, _childOptsBfnt, sigintIgnored, childResult,
                 bfResult, bfChecks, sigintsDropped>>
  /\ UNCHANGED <<earlyVars, lateButBf>>

\* line 160
spawnChild_ignoreSIGINT ==
  /\ bfPc = "forked"
  /\ sigintIgnored' = TRUE
  /\ bfEvents' = Append(bfEvents, "ignoreSIGINT")
  /\ bfPc' = "waitpid"
  /\ UNCHANGED <<modelSize, _childOptsBfnt, status, childResult, bfResult,
                 spawned, childMainLoops, bfChecks, sigintsDropped>>
  /\ UNCHANGED <<earlyVars, lateButBf>>

\* lines 162-167: waitpid fails and SYSTEM_FAIL throws, or the status of
\* the child is stored
spawnChild_waitpid ==
  /\ bfPc = "waitpid"
  /\ bfEvents' = Append(bfEvents, "waitpid")
  /\ \/ /\ bfPc' = "thrown"
        /\ UNCHANGED status
     \/ /\ status' \in ChildStatuses
        /\ bfPc' = "waited"
  /\ UNCHANGED <<modelSize, _childOptsBfnt, sigintIgnored, childResult,
                 bfResult, spawned, childMainLoops, bfChecks, sigintsDropped>>
  /\ UNCHANGED <<earlyVars, lateButBf>>

\* line 169
spawnChild_heedSIGINT ==
  /\ bfPc = "waited"
  /\ sigintIgnored' = FALSE
  /\ bfEvents' = Append(bfEvents, "heedSIGINT")
  /\ bfPc' = "heeded"
  /\ UNCHANGED <<modelSize, _childOptsBfnt, status, childResult, bfResult,
                 spawned, childMainLoops, bfChecks, sigintsDropped>>
  /\ UNCHANGED <<earlyVars, lateButBf>>

\* lines 179-186: raise(SIGINT); the handler ends the process
spawnChild_raise ==
  /\ bfPc = "heeded"
  /\ endedBySIGINT(status)
  /\ bfEvents' = Append(bfEvents, "raise")
  /\ bfPc' = IF sigintIgnored THEN "raised" ELSE "terminated"
  /\ UNCHANGED <<modelSize, _childOptsBfnt, sigintIgnored, status,
                 childResult, bfResult, spawned, childMainLoops, bfChecks,
                 sigintsDropped>>
  /\ UNCHANGED <<earlyVars, lateButBf>>

\* lines 188-205
spawnChild_return ==
  /\ \/ bfPc = "heeded" /\ ~endedBySIGINT(status)
     \/ bfPc = "raised"
  /\ bfEvents' = Append(bfEvents, "result")
  /\ IF resultOfStatus(status) = "INVALID_OPERATION"
       THEN /\ bfPc' = "thrown"
            /\ UNCHANGED childResult
       ELSE /\ childResult' = resultOfStatus(status)
            /\ bfPc' = "spawned"
  /\ UNCHANGED <<modelSize, _childOptsBfnt, sigintIgnored, status, bfResult,
                 spawned, childMainLoops, bfChecks, sigintsDropped>>
  /\ UNCHANGED <<earlyVars, lateButBf>>

\* lines 223-227
runImpl_childResult ==
  /\ bfPc = "spawned"
  /\ IF returnsChildResult(childResult)
       THEN /\ bfResult' = childResult
            /\ bfPc' = "returned"
            /\ UNCHANGED modelSize
       ELSE /\ modelSize' = modelSize + 1
            /\ bfPc' = "loop"
            /\ UNCHANGED bfResult
  /\ UNCHANGED <<_childOptsBfnt, sigintIgnored, status, childResult, spawned,
                 childMainLoops, bfEvents, bfChecks, sigintsDropped>>
  /\ UNCHANGED <<earlyVars, lateButBf>>

\* a keyboard interrupt reaches the parent while runImpl runs: it is
\* dropped when SIGINT is ignored and ends the process otherwise
keyboardInterrupt ==
  /\ bfPc \notin {"idle", "returned", "thrown", "terminated"}
  /\ IF sigintIgnored
       THEN /\ sigintsDropped' = 1
            /\ UNCHANGED bfPc
       ELSE /\ bfPc' = "terminated"
            /\ UNCHANGED sigintsDropped
  /\ UNCHANGED <<modelSize, _childOptsBfnt, sigintIgnored, status,
                 childResult, bfResult, spawned, childMainLoops, bfEvents,
                 bfChecks>>
  /\ UNCHANGED <<earlyVars, lateButBf>>

\* runImpl is entered (lines 213-215) on a loop built by the constructor
\* from options with bfnt set
BfInit ==
  /\ bfPc = "loop"
  /\ modelSize = 1
  /\ _childOptsBfnt = childOptsBfnt(TRUE)
  /\ sigintIgnored = FALSE
  /\ status = NoStatus
  /\ childResult = "NONE"
  /\ bfResult = "NONE"
  /\ spawned = <<>>
  /\ childMainLoops = {}
  /\ bfEvents = <<>>
  /\ bfChecks = 0
  /\ sigintsDropped = 0

InitBFNT ==
  /\ SchedIdle /\ FsIdle /\ FdIdle /\ CtIdle
  /\ IrIdle /\ MainIdle /\ IntIdle /\ BfInit /\ RatIdle /\ McIdle
  /\ ScIdle /\ PqIdle

NextBFNT ==
  \/ runImpl_loop
  \/ spawnChild_fork
  \/ spawnChild_ignoreSIGINT
  \/ spawnChild_waitpid
  \/ spawnChild_heedSIGINT
  \/ spawnChild_raise
  \/ spawnChild_return
  \/ runImpl_childResult
  \/ keyboardInterrupt

SpecBFNT == InitBFNT /\ [][NextBFNT]_vars


\* the statuses of a child that a keyboard interrupt ended
InterruptedStatuses ==
  {[kind |-> "signaled", code |-> "SIGINT"], [kind |-> "exited", code |-> 3]}

\* what spawnChild does around a child that a keyboard interrupt ended
C21_Propagation ==
  /\ bfPc = "waitpid" => sigintIgnored
  /\ "raise" \in Range(bfEvents) =>
       /\ status \in InterruptedStatuses
       /\ bfEvents = <<"fork", "ignoreSIGINT", "waitpid", "heedSIGINT", "raise">>
       /\ ~sigintIgnored
       /\ bfPc = "terminated"
  /\ "result" \in Range(bfEvents) => status \notin InterruptedStatuses

C28_ModelSizes ==
  /\ [](/\ spawned = [i \in 1..Len(spawned) |-> i]
        /\ Len(spawned) <= bfChecks /\ bfChecks <= Len(spawned) + 1
        /\ bfPc = "spawnChild" => bfChecks = Len(spawned) + 1
        /\ bfPc = "returned" =>
             /\ bfResult \in {"SATISFIABLE", "TIME_LIMIT"}
             /\ bfResult = "SATISFIABLE" => childResult = "SATISFIABLE"
        /\ "BFNTMainLoop" \notin childMainLoops)
  /\ [][(/\ bfPc = "spawned"
         /\ childResult \in {"REFUTATION", "UNKNOWN"}
         /\ bfPc' \notin {"spawned", "terminated"}) =>
          (bfPc' = "loop" /\ modelSize' = modelSize + 1)]_vars

\* size 2 is tried after the child for size 1 reported a refutation, and
\* its child reports satisfiability
C28_Witness ==
  /\ bfPc = "returned"
  /\ bfResult = "SATISFIABLE"
  /\ spawned = <<1, 2>>
  /\ bfChecks = 2


(***************************************************************************)
(* Kernel/Theory: RationalConstantType                                     *)
(***************************************************************************)

\* the largest denominator of an operand
MaxRatDen == 2

\* an IntegerConstantType, or the ArithmeticException thrown on the way
Raised == [ok |-> FALSE, res |-> 0]

Value(v) == [ok |-> TRUE, res |-> v]

unlessRaised(r) == IF r.ok THEN r ELSE Raised

\* the operators of IntegerConstantType applied to what the operands
\* evaluated to; an exception of an operand is passed on
intPlus(a, b) ==
  IF ~a.ok \/ ~b.ok THEN Raised ELSE unlessRaised(safePlus(a.res, b.res))

intUnaryMinus(a) ==
  IF ~a.ok THEN Raised ELSE unlessRaised(safeUnaryMinus(a.res))

intMultiply(a, b) ==
  IF ~a.ok \/ ~b.ok THEN Raised ELSE unlessRaised(safeMultiply(a.res, b.res))

intDivide(a, b) ==
  IF ~a.ok \/ ~b.ok THEN Raised
  ELSE IF b.res = 0 THEN Raised
  ELSE IF a.res = IntMin /\ b.res = -1 THEN Raised
  ELSE Value(TruncDiv(a.res, b.res))

RECURSIVE Euclid(_, _)
Euclid(i, j) == IF j = 0 THEN i ELSE Euclid(j, i % j)

\* Int::gcd on InnerType: the greatest common divisor of the absolute
\* values, kept to the width of the type
IntGcd(i, j) ==
  IF i = 0 \/ j = 0
    THEN IF gcdOfZero = "ONE" THEN 1
         ELSE IF Abs(i) + Abs(j) > IntMax THEN IntMin ELSE Abs(i) + Abs(j)
  ELSE IF Euclid(Abs(i), Abs(j)) > IntMax THEN IntMin
  ELSE Euclid(Abs(i), Abs(j))

RaisedRational == [ok |-> FALSE, num |-> 0, den |-> 0]

\* the sign of the denominator is left as it is
normalizeSignNever(num, den) == [num |-> num, den |-> den]

\* lines 337-340 of cannonize
normalizeSign(num, den) ==
  IF den.ok /\ den.res < 0
    THEN [num |-> intUnaryMinus(num), den |-> intUnaryMinus(den)]
    ELSE [num |-> num, den |-> den]

\* RationalConstantType::cannonize, on _num and _den
cannonize(num, den) ==
  LET gcd == IntGcd(num.res, den.res)
      reduced == IF gcd # 1
                   THEN [num |-> intDivide(num, Value(gcd)),
                         den |-> intDivide(den, Value(gcd))]
                   ELSE [num |-> num, den |-> den]
      signed == normalizeSign(reduced.num, reduced.den)
  IN IF ~signed.num.ok \/ ~signed.den.ok
       THEN RaisedRational
     ELSE IF signed.num.res = 0 /\ signed.den.res # 0
       THEN [ok |-> TRUE, num |-> 0, den |-> 1]
     ELSE [ok |-> TRUE, num |-> signed.num.res, den |-> signed.den.res]

\* RationalConstantType::init, also for operands that raised
init(num, den) ==
  IF ~num.ok \/ ~den.ok THEN RaisedRational
  ELSE LET r == cannonize(num, den)
       IN IF r.ok /\ r.den = 0 THEN RaisedRational ELSE r

N(a) == Value(a.num)

D(a) == Value(a.den)

ratPlus(a, o) ==
  IF a.den = o.den
    THEN init(intPlus(N(a), N(o)), D(a))
    ELSE init(intPlus(intMultiply(N(a), D(o)), intMultiply(N(o), D(a))),
              intMultiply(D(a), D(o)))

ratUnaryMinus(a) == init(intUnaryMinus(N(a)), D(a))

ratMinus(a, o) ==
  LET m == ratUnaryMinus(o)
  IN IF m.ok THEN ratPlus(a, m) ELSE RaisedRational

ratMultiply(a, o) == init(intMultiply(N(a), N(o)), intMultiply(D(a), D(o)))

ratDivide(a, o) == init(intMultiply(N(a), D(o)), intMultiply(D(a), N(o)))

\* IntegerConstantType::floor(rat), for a positive denominator
floor(rat) ==
  IF rat.num > 0 THEN TruncDiv(rat.num, rat.den)
  ELSE IF TruncRem(rat.num, rat.den) # 0
    THEN TruncDiv(rat.num, rat.den) - 1
  ELSE TruncDiv(rat.num, rat.den)

\* IntegerConstantType::ceiling(rat), for a positive denominator
ceiling(rat) ==
  IF rat.num < 0 THEN TruncDiv(rat.num, rat.den)
  ELSE IF TruncRem(rat.num, rat.den) # 0
    THEN TruncDiv(rat.num, rat.den) + 1
  ELSE TruncDiv(rat.num, rat.den)

\* res-1 and res+1 of floor and ceiling, and the constructor from an integer
ratOfInteger(v) == init(unlessRaised(safeResult(v)), Value(1))

\* RationalConstantType::quotientE
ratQuotientE(a, num) ==
  LET q == ratDivide(a, num)
  IN IF ~q.ok THEN RaisedRational
     ELSE IF a.num > 0 /\ a.den > 0 THEN ratOfInteger(floor(q))
     ELSE ratOfInteger(ceiling(q))

\* IntegerConstantType::quotientE on values whose quotient a float holds
\* exactly
intQuotientE(a, num) ==
  IF num = 0 THEN Raised
  ELSE LET q == [num |-> IF num > 0 THEN a ELSE -a, den |-> Abs(num)]
       IN IF num > 0 THEN Value(floor(q)) ELSE Value(ceiling(q))

\* the values an object can hold whose constructor assigned nothing
Indeterminate == {[ok |-> TRUE, num |-> n, den |-> d] : n \in {-1, 0, 1}, d \in {-1, 0, 2}}

finishRational(op, results) ==
  /\ ratPc = "call"
  /\ ratOp = op
  /\ ratResult' \in results
  /\ ratPc' = "done"
  /\ UNCHANGED <<ratOp, ratA, ratB, ratEqual, gcdOfZero>>
  /\ UNCHANGED <<earlyVars, lateButRat>>

\* RationalConstantType() {}
RationalConstantType0 == finishRational("RationalConstantType()", Indeterminate)

\* RationalConstantType(InnerType num, InnerType den)
RationalConstantType2 ==
  finishRational("RationalConstantType(num,den)", {init(N(ratA), D(ratA))})

\* RationalConstantType(InnerType num)
RationalConstantType1 ==
  finishRational("RationalConstantType(num)", {init(N(ratA), Value(1))})

ratOperatorPlus == finishRational("+", {ratPlus(ratA, ratB)})

ratOperatorMinus == finishRational("-", {ratMinus(ratA, ratB)})

ratOperatorUnaryMinus == finishRational("neg", {ratUnaryMinus(ratA)})

ratOperatorMultiply == finishRational("*", {ratMultiply(ratA, ratB)})

ratOperatorDivide == finishRational("/", {ratDivide(ratA, ratB)})

quotientE == finishRational("quotientE", {ratQuotientE(ratA, ratB)})

\* RationalConstantType::operator==
ratOperatorEquals ==
  /\ ratPc = "call"
  /\ ratOp = "=="
  /\ ratEqual' = (ratA.num = ratB.num /\ ratA.den = ratB.den)
  /\ ratPc' = "done"
  /\ UNCHANGED <<ratOp, ratA, ratB, ratResult, gcdOfZero>>
  /\ UNCHANGED <<earlyVars, lateButRat>>

RatOperators == {"+", "-", "*", "/", "quotientE", "=="}

\* the values the constructors build from a numerator and a denominator
\* of up to MaxRatDen
RatOperands ==
  {[num |-> r.num, den |-> r.den] :
     r \in {c \in {init(Value(n), Value(d)) :
                     n \in InnerType, d \in 1..MaxRatDen} : c.ok}}

RatInit ==
  /\ gcdOfZero \in {"ONE", "OTHER"}
  /\ ratOp \in RatOperators
             \cup {"neg", "RationalConstantType()",
                   "RationalConstantType(num)", "RationalConstantType(num,den)"}
  /\ ratA \in IF ratOp = "RationalConstantType(num,den)"
                THEN [num : InnerType, den : InnerType]
              ELSE IF ratOp = "RationalConstantType(num)"
                THEN [num : InnerType, den : {1}]
              ELSE IF ratOp = "RationalConstantType()"
                THEN {[num |-> 0, den |-> 1]}
              ELSE RatOperands
  /\ ratB \in IF ratOp \in RatOperators THEN RatOperands
              ELSE {[num |-> 0, den |-> 1]}
  /\ ratPc = "call"
  /\ ratResult = RaisedRational
  /\ ratEqual = FALSE

InitRat ==
  /\ SchedIdle /\ FsIdle /\ FdIdle /\ CtIdle
  /\ IrIdle /\ MainIdle /\ IntIdle /\ BfIdle /\ RatInit /\ McIdle
  /\ ScIdle /\ PqIdle

NextRat ==
  \/ RationalConstantType0
  \/ RationalConstantType2
  \/ RationalConstantType1
  \/ ratOperatorPlus
  \/ ratOperatorMinus
  \/ ratOperatorUnaryMinus
  \/ ratOperatorMultiply
  \/ ratOperatorDivide
  \/ quotientE
  \/ ratOperatorEquals

SpecRat == InitRat /\ [][NextRat]_vars


\* positive denominator, numerator and denominator coprime, zero as 0/1
Canonical(r) ==
  /\ r.den > 0
  /\ Euclid(Abs(r.num), r.den) = 1

\* the values built by the operations named, the exception for a zero
\* denominator, and operator== on two values
CanonicalAfter(ops) ==
  ratPc = "done" =>
    /\ (ratOp \in ops /\ ratResult.ok) => Canonical(ratResult)
    /\ (ratOp = "RationalConstantType(num,den)" /\ ratResult.ok) =>
         ratResult.num * ratA.den = ratA.num * ratResult.den
    /\ (ratOp = "RationalConstantType(num,den)" /\ ratA.den = 0) =>
         ~ratResult.ok
    /\ ratOp = "==" =>
         (ratEqual <=> ratA.num * ratB.den = ratB.num * ratA.den)

\* C23 as stated: every value built by any constructor or by +, -, * and /
\* is in canonical form, a zero denominator raises ArithmeticException and
\* operator== holds exactly for equal rational numbers.
C23_CanonicalAnyConstructor ==
  CanonicalAfter({"RationalConstantType()", "RationalConstantType(num)",
                  "RationalConstantType(num,den)", "+", "-", "neg", "*", "/"})

\* C23 amended: the same for the constructors that take arguments.
C23_CanonicalConstructed ==
  CanonicalAfter({"RationalConstantType(num)",
                  "RationalConstantType(num,den)", "+", "-", "neg", "*", "/"})

\* 4/-6 was built as -2/3
C23_Witness ==
  /\ ratPc = "done"
  /\ ratOp = "RationalConstantType(num,den)"
  /\ ratA = [num |-> 4, den |-> -6]
  /\ ratResult = [ok |-> TRUE, num |-> -2, den |-> 3]

\* floor(x/y) for y # 0
FloorOfQuotient(x, y) ==
  LET n == IF y > 0 THEN x ELSE -x
      d == Abs(y)
  IN IF n >= 0 THEN n \div d ELSE -((-n) \div d) - (IF (-n) % d = 0 THEN 0 ELSE 1)

CeilingOfQuotient(x, y) == -FloorOfQuotient(-x, y)

\* C29: quotientE(a, b) of RationalConstantType is floor(a/b) for b > 0 and
\* ceiling(a/b) for b < 0, and for integers a and b it is what quotientE of
\* IntegerConstantType returns.
C29_QuotientE ==
  (ratPc = "done" /\ ratOp = "quotientE" /\ ratB.num # 0 /\ ratResult.ok) =>
    LET x == ratA.num * ratB.den
        y == ratA.den * ratB.num
    IN /\ ratResult.den = 1
       /\ ratResult.num = IF ratB.num > 0 THEN FloorOfQuotient(x, y)
                          ELSE CeilingOfQuotient(x, y)
       /\ (ratA.den = 1 /\ ratB.den = 1) =>
            Value(ratResult.num) = intQuotientE(ratA.num, ratB.num)


(***************************************************************************)
(* Shell/Interpolants.cpp: mergeCopy                                       *)
(***************************************************************************)

\* the formulas of a pair are named by their addresses 0..MaxUI; the
\* longest list has MaxListLen pairs
MaxUI == 1

MaxListLen == 2

UIPairs == [first : 0..MaxUI, second : 0..MaxUI]

\* Int::compare on two addresses
IntCompare(i, j) == IF i < j THEN "LESS" ELSE IF i = j THEN "EQUAL" ELSE "GREATER"

compareUIP(a, b) ==
  LET res == IntCompare(a.first, b.first)
  IN IF res = "EQUAL" THEN IntCompare(a.second, b.second) ELSE res

\* an element of src equal to the one at curr is inserted all the same
skipsEqualNever(cmp) == FALSE

\* lines 145-147: the element of src is in tgt already
skipsEqual(cmp) == cmp = "EQUAL"

\* the list tgt with spl put in front of the cell curr points to
insertAt(tgt, curr, spl) ==
  SubSeq(tgt, 1, curr - 1) \o <<spl>> \o SubSeq(tgt, curr, Len(tgt))

\* the loop of lines 138-156: curr is the position of the cell *curr in
\* tgt, src what sit has not yielded yet
RECURSIVE mergeLoop(_, _, _)
mergeLoop(tgt, curr, src) ==
  IF src = <<>> THEN tgt
  ELSE LET spl == Head(src)
       IN IF curr <= Len(tgt) /\ compareUIP(tgt[curr], spl) # "GREATER"
            THEN IF skipsEqual(compareUIP(tgt[curr], spl))
                   THEN mergeLoop(tgt, curr + 1, Tail(src))
                   ELSE mergeLoop(tgt, curr + 1, src)
            ELSE mergeLoop(insertAt(tgt, curr, spl), curr + 1, Tail(src))

\* what mergeCopy leaves in tgt
merged(tgt, src) == IF tgt = <<>> THEN src ELSE mergeLoop(tgt, 1, src)

\* mergeCopy(tgt, src), called once and once more with the same src
mergeCopy ==
  /\ mcTgts # <<>>
  /\ Len(mcTgts) < 3
  /\ mcTgt' = merged(mcTgt, mcSrc)
  /\ mcTgts' = Append(mcTgts, mcTgt')
  /\ UNCHANGED <<mcSrc, mcSrcAtEntry>>
  /\ UNCHANGED <<earlyVars, lateButMc>>

\* ordered by compareUIP without duplicates
IsSortedUIP(l) ==
  \A i \in 1..(Len(l) - 1) : compareUIP(l[i], l[i + 1]) = "LESS"

SortedLists == {l \in SeqsUpTo(UIPairs, MaxListLen) : IsSortedUIP(l)}

McInit ==
  /\ mcTgt \in SortedLists
  /\ mcSrc \in SortedLists
  /\ mcSrcAtEntry = mcSrc
  /\ mcTgts = <<mcTgt>>

InitMerge ==
  /\ SchedIdle /\ FsIdle /\ FdIdle /\ CtIdle
  /\ IrIdle /\ MainIdle /\ IntIdle /\ BfIdle /\ RatIdle /\ McInit
  /\ ScIdle /\ PqIdle

NextMerge == mergeCopy

SpecMerge == InitMerge /\ [][NextMerge]_vars

\* C24: mergeCopy on two lists ordered by compareUIP without duplicates
\* leaves tgt ordered without duplicates and holding the union of the old
\* tgt and src, leaves src as it was, and merging src again changes nothing.
C24_MergeCopy ==
  /\ mcSrc = mcSrcAtEntry
  /\ Len(mcTgts) >= 2 =>
       /\ IsSortedUIP(mcTgts[2])
       /\ Range(mcTgts[2]) = Range(mcTgts[1]) \cup Range(mcSrc)
  /\ Len(mcTgts) = 3 => mcTgts[3] = mcTgts[2]

\* the elements of src went between and behind those of tgt, one of them
\* was there already
C24_Witness ==
  /\ Len(mcTgts) = 3
  /\ Len(mcTgts[1]) = 2
  /\ Len(mcSrc) = 2
  /\ Len(mcTgt) = 3
  /\ mcTgt[3] = mcSrc[2]


(***************************************************************************)
(* Shell/Property.cpp: scanForInterpreted, with Theory::getOperationSort   *)
(***************************************************************************)

NumericSorts == {"INT", "RAT", "REAL"}

PredicateOps ==
  {"IS_INT", "IS_RAT", "IS_REAL", "GREATER", "GREATER_EQUAL", "LESS",
   "LESS_EQUAL"}

FunctionOps ==
  {"UNARY_MINUS", "PLUS", "MINUS", "MULTIPLY", "QUOTIENT_E", "QUOTIENT_T",
   "QUOTIENT_F", "REMAINDER_E", "REMAINDER_T", "REMAINDER_F", "FLOOR",
   "CEILING", "TRUNCATE", "ROUND"}

ConversionOps == {"TO_INT", "TO_RAT", "TO_REAL"}

\* enum Interpretation: a member S_OP is the record of S and OP; the
\* interpretations of structured sorts are stood for by ARRAY_SELECT
EQUAL == [sort |-> "NONE", op |-> "EQUAL"]

ARRAY_SELECT == [sort |-> "STRUCTURED", op |-> "ARRAY_SELECT"]

PredicateInterpretations ==
  [sort : NumericSorts, op : PredicateOps]
    \cup {[sort |-> "INT", op |-> "DIVIDES"]}

FunctionInterpretations ==
  [sort : NumericSorts, op : FunctionOps \cup ConversionOps]
    \cup [sort : {"INT"}, op : {"SUCCESSOR", "ABS"}]
    \cup [sort : {"RAT", "REAL"}, op : {"QUOTIENT"}]
    \cup {ARRAY_SELECT}

\* Theory::hasSingleSort
hasSingleSort(i) ==
  ~(\/ i = EQUAL
    \/ i.op \in ConversionOps /\ i.op # "TO_" \o i.sort)

isStructuredSortInterpretation(i) == i.sort = "STRUCTURED"

\* the switch of Theory::getOperationSort: the sort, or "default" for the
\* branch with ASSERTION_VIOLATION
getOperationSort(i) ==
  IF isStructuredSortInterpretation(i) THEN "STRUCTURED"
  ELSE IF i.sort \in NumericSorts
            /\ (i.op \notin ConversionOps \/ i.op = "TO_" \o i.sort)
    THEN i.sort
  ELSE "default"

isInequality(i) ==
  i.op \in {"GREATER", "GREATER_EQUAL", "LESS", "LESS_EQUAL"}

isLinearOperation(i) == i.op \in {"UNARY_MINUS", "PLUS", "MINUS"}

isNonLinearOperation(i) ==
  i.op \in {"MULTIPLY", "QUOTIENT", "QUOTIENT_E", "QUOTIENT_T", "QUOTIENT_F",
            "REMAINDER_E", "REMAINDER_T", "REMAINDER_F"}

\* Theory::isInterpretedPredicate(Literal*)
isInterpretedPredicate(lit) ==
  IF lit.kind = "equality" THEN lit.sort # "DEFAULT" ELSE lit.interpreted

\* Theory::isInterpretedFunction(Term*)
isInterpretedFunction(t) == t.interpreted /\ t.arity # 0

\* the properties the three switches add for the sort
propsFor(itp, sort) ==
  IF sort \notin NumericSorts THEN {}
  ELSE (IF isInequality(itp) THEN {<<sort, "COMPARISON">>} ELSE {})
         \cup (IF isLinearOperation(itp) THEN {<<sort, "LINEAR">>} ELSE {})
         \cup (IF isNonLinearOperation(itp) THEN {<<sort, "NONLINEAR">>} ELSE {})

\* Property::scanForInterpreted(t).  Called outside its precondition,
\* getOperationSort fails its assertion in a debug build; without the
\* assertions it runs off its end and some value comes back as the sort
scanForInterpreted ==
  /\ scPc = "call"
  /\ scPc' = "done"
  /\ IF \/ scTerm.kind \in {"equality", "literal"} /\ ~isInterpretedPredicate(scTerm)
        \/ scTerm.kind = "term" /\ ~isInterpretedFunction(scTerm)
       THEN /\ scOutcome' = "returned"
            /\ UNCHANGED <<_interpretationPresence, _hasInterpreted, scProps,
                           scSortCalls>>
       ELSE LET itp == scTerm.itp
            IN /\ _interpretationPresence' = _interpretationPresence \cup {itp}
               /\ _hasInterpreted' = TRUE
               /\ scSortCalls' = Append(scSortCalls, itp)
               /\ IF hasSingleSort(itp)
                    THEN /\ scOutcome' = "returned"
                         /\ scProps' = scProps
                              \cup propsFor(itp, getOperationSort(itp))
                    ELSE \/ /\ scOutcome' = "ASSERTION_VIOLATION"
                            /\ UNCHANGED scProps
                         \/ /\ scOutcome' = "returned"
                            /\ \E sort \in NumericSorts \cup {"default"} :
                                 scProps' = scProps \cup propsFor(itp, sort)
  /\ UNCHANGED scTerm
  /\ UNCHANGED <<earlyVars, lateButSc>>

\* the literals and terms Property::scan hands to scanForInterpreted: an
\* equality literal has the interpretation of its predicate symbol, EQUAL
ScannedTerms ==
  {[kind |-> "equality", sort |-> srt, interpreted |-> TRUE, arity |-> 2,
    itp |-> EQUAL] : srt \in {"DEFAULT"} \cup NumericSorts}
    \cup {[kind |-> "literal", sort |-> "NONE", interpreted |-> TRUE,
           arity |-> 2, itp |-> i] : i \in PredicateInterpretations}
    \cup {[kind |-> "term", sort |-> "NONE", interpreted |-> TRUE,
           arity |-> 1, itp |-> i] : i \in FunctionInterpretations}
    \cup {[kind |-> k, sort |-> "NONE", interpreted |-> FALSE, arity |-> 1,
           itp |-> NoInterpretation] : k \in {"literal", "term"}}
    \cup {[kind |-> "term", sort |-> "NONE", interpreted |-> TRUE,
           arity |-> 0, itp |-> NoInterpretation]}

ScInit ==
  /\ scTerm \in ScannedTerms
  /\ scPc = "call"
  /\ _interpretationPresence = {}
  /\ _hasInterpreted = FALSE
  /\ scProps = {}
  /\ scSortCalls = <<>>
  /\ scOutcome = "none"

InitScan ==
  /\ SchedIdle /\ FsIdle /\ FdIdle /\ CtIdle
  /\ IrIdle /\ MainIdle /\ IntIdle /\ BfIdle /\ RatIdle /\ McIdle
  /\ ScInit /\ PqIdle

NextScan == scanForInterpreted

SpecScan == InitScan /\ [][NextScan]_vars

\* C30: scanForInterpreted calls getOperationSort only for interpretations
\* with hasSingleSort, so that neither the assertion of getOperationSort
\* nor its default branch is reached.
C30_SortPrecondition ==
  /\ \A c \in DOMAIN scSortCalls :
       /\ hasSingleSort(scSortCalls[c])
       /\ getOperationSort(scSortCalls[c]) # "default"
  /\ scOutcome # "ASSERTION_VIOLATION"


(***************************************************************************)
(* The Passive container (spec 4.5): a priority queue whose key            *)
(* interleaves age and weight in the fixed age-weight ratio.               *)
(***************************************************************************)

MaxPassive == 2

MaxAgeGap == 1

MaxWeight == 2

MaxRatio == 2

ClauseIds == 1 .. MaxPassive

idsOf(P) == {c.id : c \in P}

\* the smallest age among Passive and the given clause
floorAge(P, g) ==
  LET ages == {c.age : c \in P} \cup (IF g = NoGiven THEN {} ELSE {g})
  IN IF ages = {} THEN 0 ELSE CHOOSE a \in ages : \A b \in ages : a <= b

\* Ages are kept relative to the smallest age among Passive and the given
\* clause, which never decreases: a conclusion is deeper than the given
\* clause.
rebased(P, g) ==
  {[c EXCEPT !.age = c.age - floorAge(P, g)] : c \in P}

rebasedGiven(P, g) == IF g = NoGiven THEN NoGiven ELSE g - floorAge(P, g)

\* age(child) >= 1 + max age(parent); an input clause has age 0.  An age
\* more than MaxAgeGap above the smallest one is kept as MaxAgeGap.
childAges ==
  IF given = NoGiven THEN {0}
  ELSE {a \in 0 .. MaxAgeGap : a >= (IF given + 1 > MaxAgeGap THEN MaxAgeGap ELSE given + 1)}

\* the selection takes the lightest clause whatever the ratio
byAgeNever == FALSE

\* the cycle of the ratio: ageRatio selections by age, then weightRatio
\* selections by weight
byAge == turn < ageRatio

\* the best clauses of Passive under the key of this selection
best(P) ==
  IF byAge THEN {c \in P : \A d \in P : c.age <= d.age}
  ELSE {c \in P : \A d \in P : c.weight <= d.weight}

\* step 2: a clause that survived forward simplification enters Passive
Passive_add ==
  /\ Cardinality(passive) < MaxPassive
  /\ \E id \in ClauseIds \ idsOf(passive), a \in childAges, w \in 1 .. MaxWeight :
       LET P == passive \cup {[id |-> id, age |-> a, weight |-> w]}
       IN /\ passive' = rebased(P, given)
          /\ given' = rebasedGiven(P, given)
  /\ UNCHANGED <<turn, ageRatio, weightRatio>>
  /\ UNCHANGED <<earlyVars, lateButPq>>

\* step 4: the best clause is popped from Passive as the given clause
Passive_popSelected ==
  /\ passive # {}
  /\ \E g \in best(passive) :
       LET P == passive \ {g}
       IN /\ passive' = rebased(P, g.age)
          /\ given' = rebasedGiven(P, g.age)
  /\ turn' = (turn + 1) % (ageRatio + weightRatio)
  /\ UNCHANGED <<ageRatio, weightRatio>>
  /\ UNCHANGED <<earlyVars, lateButPq>>

\* a clause of Passive is deleted or simplified
Passive_remove ==
  /\ \E c \in passive :
       LET P == passive \ {c}
       IN /\ passive' = rebased(P, given)
          /\ given' = rebasedGiven(P, given)
  /\ UNCHANGED <<turn, ageRatio, weightRatio>>
  /\ UNCHANGED <<earlyVars, lateButPq>>

PqInit ==
  /\ passive = {}
  /\ given = NoGiven
  /\ turn = 0
  /\ ageRatio \in 1 .. MaxRatio
  /\ weightRatio \in 1 .. MaxRatio

InitPassive ==
  /\ SchedIdle /\ FsIdle /\ FdIdle /\ CtIdle
  /\ IrIdle /\ MainIdle /\ IntIdle /\ BfIdle /\ RatIdle /\ McIdle
  /\ ScIdle /\ PqInit

NextPassive == Passive_add \/ Passive_popSelected \/ Passive_remove

SpecPassive == InitPassive /\ [][NextPassive]_vars

\* the loop keeps running: while Passive is not empty its step 4 pops the
\* best clause
SpecPassiveFair == SpecPassive /\ WF_vars(Passive_popSelected)

\* C22: every clause placed in Passive is eventually selected as the given
\* clause, deleted or simplified: no clause stays in Passive forever while
\* the loop keeps running, whatever clauses are added later.
C22_Fairness ==
  \A id \in ClauseIds : (id \in idsOf(passive)) ~> (id \notin idsOf(passive))

\* a heavy clause waits in Passive beside a lighter and deeper one, and the
\* selection at hand goes by weight
C22_Witness ==
  /\ ~byAge
  /\ given # NoGiven
  /\ \E c, d \in passive : c.weight > d.weight /\ c.age < d.age

====
